---- MODULE Spec2Model ----
(***************************************************************************)
(* A model of the tool-calling core of SuperSecretary:                     *)
(*   - the payload recovery parser (safe_json_loads / _iter_json_objects), *)
(*   - the round controller of Client.send (app/chat.py),                  *)
(*   - the round controller of AIAgent.process_message (app/ai_agent.py),  *)
(*   - the synthetic batch_exec tool,                                      *)
(*   - the tool registry built by Client.get_mcp_tools,                    *)
(*   - the shutdown of MCPBridge (app/mcp/mcp_remote.py),                  *)
(*   - the result compressor (Client.send, AIAgent._compress_tool_result), *)
(*   - the construction of MCPBridge and the tool callers it hands out,    *)
(*   - one tool call from AIAgent through a Bridge to the provider,        *)
(*   - the coroutines of a Bridge's event loop and their callers.          *)
(* Each component has its own specification over the shared variables.     *)
(***************************************************************************)
EXTENDS Integers, Sequences, FiniteSets, TLC

VARIABLES
    \* ---- payload recovery parser ----
    text,       \* the string s handed to safe_json_loads (a sequence of characters)
    segs,       \* how text was put together: pieces of prose and of JSON values
    i,          \* the cursor of _iter_json_objects (0-based, as in the code)
    last,       \* safe_json_loads' variable last
    attempts,   \* number of raw_decode attempts made so far
    yields,     \* number of values _iter_json_objects has yielded so far
    jpc,        \* "scan" while the loop runs, "done" after safe_json_loads returned
    jresult,    \* the value safe_json_loads returned
    \* ---- batch_exec ----
    b_mode,     \* the mode argument of batch_exec
    b_max,      \* the max_concurrency argument of batch_exec
    b_tool,     \* the argument tool
    b_args,     \* the argument args_list: per entry, whether it is a mapping
    b_i,        \* the loop index i of enumerate(args_list)
    b_results,  \* the list results
    b_invoked,  \* the invocations fn(**a) made so far: entry index and outcome
    bpc,        \* "call", "loop", "done", or "raised" when an exception escaped
    b_ret,      \* the envelope batch_exec returned
    \* ---- Client (app/chat.py) ----
    messages,   \* Client.messages
    round_idx,  \* send's round_idx
    spc,        \* where send is: "idle", "loop" (at the while test), "tools"
    resp,       \* the model response of the current round
    s_resps,    \* the model responses the current send has received, in order
    call_k,     \* index in resp.tool_calls of the next call to execute
    s_ret,      \* content of the message the last send returned
    s_terminal, \* how the last send ended
    s_events,   \* model calls and tool invocations of the current send, in order
    s_start,    \* Client.messages when the current send was called
    sends,      \* number of send calls so far
    s_log,      \* the tool dispatches of the current send: request id and outcome
    \* ---- AIAgent (app/ai_agent.py) ----
    conversation_history,   \* AIAgent.conversation_history
    tool_call_history,      \* AIAgent.tool_call_history
    current_round,          \* process_message's current_round
    final_response,         \* process_message's final_response
    response_content,       \* process_message's response_content
    finish_reason,          \* finish_reason of the round's first model response
    apc,        \* where process_message is: "idle", "loop", "tools", "followup"
    a_resp,     \* the model response whose tool calls are being handled
    a_k,        \* index in a_resp.tool_calls of the next call to execute
    tool_results,   \* _handle_standard_tool_calls' tool_results: the success flags
    a_ret,      \* what the last process_message returned
    a_terminal, \* how the last process_message ended
    a_executed, \* tool requests executed since the agent was constructed
    a_calls,    \* model calls made by the current process_message
    msgs,       \* number of process_message calls so far
    a_log,      \* model calls and tool requests handled by the current process_message
    \* ---- Client.get_mcp_tools ----
    servers,            \* config["mcpServers"], in configuration order
    srv,                \* number of servers the for loop has finished
    mcp_tools,          \* the descriptor list (later Client.tools)
    mcp_funcDict,       \* tool name -> the provider whose invoker it holds
    mcp_service_info,   \* the (name, tools) entries, in insertion order
    tool_to_service_map,    \* Client._tool_to_service_map
    mcp_bridges,        \* Client._mcp_bridges: providers whose Bridge was built
    started,            \* providers whose loop body ran to its end
    rpc,                \* "loop" while the for loop runs, then "done"
    \* ---- MCPBridge.stop ----
    stopped,        \* MCPBridge._stopped
    loop_running,   \* self._loop.is_running()
    thread_alive,   \* self._thread.is_alive()
    connected,      \* the provider connection is open
    stop_signalled, \* loop.stop has been scheduled on the loop
    tpc,            \* per caller: where it is inside stop()
    stop_calls,     \* calls of stop() made so far
    completed,      \* calls of stop() that ran the shutdown steps to the end
    noops,          \* calls of stop() that returned at the idempotency check
    late_noops,     \* those of them made after a stop() had completed
    closes,         \* __aexit__ submissions
    loop_stops,     \* loop.stop signals
    joins,          \* thread.join calls
    \* ---- result compressor ----
    c_who,      \* whose compressor runs: "send" (Client.send) or "agent"
    c_type,     \* Python type of the tool result r: "str", or "obj" (dict, list, int)
    c_in,       \* r itself if it is a str, else the JSON text whose value r is
    c_once,     \* the compressor's output for r
    c_twice,    \* the compressor's output for c_once
    cpc,        \* "start", "once" (compressed once), "twice"
    \* ---- MCPBridge.__init__ and the callers of _make_caller ----
    ctor,       \* where the constructor is: "new", "worker", "ok", "failed"
    k_calls,    \* tool calls made through the Bridge so far
    k_last,     \* the last tool call: what the provider did and how _call ended
    \* ---- one tool call: AIAgent -> call_tool -> _call -> provider ----
    p_resp,     \* what the provider does with the call
    p_ret,      \* how _call ended and what it returned
    p_exec,     \* the tool_results entry _handle_standard_tool_calls builds
    ppc,        \* "call" (before _call), "handle" (after it), "done"
    \* ---- the event loop of one Bridge ----
    tasks,      \* the coroutines submitted to the loop, in submission order
    waiting,    \* per caller thread: the task it is blocked on, 0 if none
    t_out,      \* per caller thread: how its calls ended, in order
    \* ---- one call of AIAgent._trim_conversation_history ----
    h_in,       \* conversation_history before the call
    h_out,      \* conversation_history after it
    hpc,        \* "call", "done"
    \* ---- SuperSecretary (app/super_secretary.py) ----
    running,        \* self.running
    polling_thread, \* self.polling_thread: the worker it names, 0 for None
    ai_agent,       \* self.ai_agent: the AIAgent it names, 0 for None
    worker,         \* per polling thread: where it is in _polling_worker
    starts,         \* number of start() calls entered so far
    kpc,            \* per caller thread: where it is in start() or stop()
    \* ---- process_once (app/email_gateway.py) ----
    max_retries,    \* the argument max_retries
    ALLOWED,        \* the sender whitelist
    inbox,          \* the messages of INBOX: sender and command of each
    unseen,         \* the messages the server holds without the \Seen flag
    implicit_seen,  \* whether the server sets \Seen when a message is fetched whole
    retry,          \* the variable retry
    imap_attempts,  \* IMAP connections opened so far
    filtered_ids,   \* the variable filtered_ids of the running attempt
    m_k,            \* position of the handling loop in filtered_ids
    add_diary_calls,  \* per message: calls of add_diary made for it
    gen_weekly_calls, \* per message: calls of gen_weekly made for it
    send_mail_calls,  \* per message: calls of _send_mail made for it
    processed_emails, \* the variable processed_emails of the running attempt
    m_ret,          \* what process_once returned
    mpc             \* "while", "connect", "handle", "collect", "logout", "returned"

jsonVars == <<text, segs, i, last, attempts, yields, jpc, jresult>>
batchVars == <<b_mode, b_max, b_tool, b_args, b_i, b_results, b_invoked, bpc, b_ret>>

sendVars == <<messages, round_idx, spc, resp, s_resps, call_k, s_ret, s_terminal, s_events,
              s_start, sends, s_log>>

agentVars == <<conversation_history, tool_call_history, current_round, final_response,
               response_content, finish_reason, apc, a_resp, a_k, tool_results, a_ret,
               a_terminal, a_executed, a_calls, msgs, a_log>>

registryVars == <<servers, srv, mcp_tools, mcp_funcDict, mcp_service_info,
                  tool_to_service_map, mcp_bridges, started, rpc>>
bridgeVars == <<stopped, loop_running, thread_alive, connected, stop_signalled, tpc,
                stop_calls, completed, noops, late_noops, closes, loop_stops, joins>>

compressVars == <<c_who, c_type, c_in, c_once, c_twice, cpc>>

lifeVars == <<ctor, k_calls, k_last>>

callVars == <<p_resp, p_ret, p_exec, ppc>>

taskVars == <<tasks, waiting, t_out>>

trimVars == <<h_in, h_out, hpc>>

secVars == <<running, polling_thread, ai_agent, worker, starts, kpc>>

mailVars == <<max_retries, ALLOWED, inbox, unseen, implicit_seen, retry, imap_attempts,
              filtered_ids, m_k, add_diary_calls, gen_weekly_calls, send_mail_calls,
              processed_emails, m_ret, mpc>>

vars == <<jsonVars, batchVars, sendVars, agentVars, registryVars, bridgeVars,
          compressVars, lifeVars, callVars, taskVars, trimVars, secVars, mailVars>>

(***************************************************************************)
(* Bounds of the model.                                                    *)
(***************************************************************************)
MaxTextLen == 5     \* longest arbitrary text handed to the parser
MaxSegs == 3        \* most pieces of a text composed of values and prose
MaxBatch == 3       \* longest args_list handed to batch_exec
MaxSends == 2       \* most send calls on one Client
MaxCarry == 3       \* longest conversation on which a further send is started
\* chat.py sets MAX_TOOL_ROUNDS = 1000; the model runs the same loop with a
\* small limit
MAX_TOOL_ROUNDS == 2
MaxMessages == 2    \* most process_message calls on one AIAgent
AgentMaxCarry == 3  \* longest history on which a further process_message is started
\* process_message sets MAX_TOOL_ROUNDS = 10; the model runs the same loop with
\* a small limit
AGENT_MAX_TOOL_ROUNDS == 2
MaxStopCalls == 4   \* most calls of stop() on one Bridge
ShortLen == 40      \* len() of a short content
BigLen == 20000     \* len() of a long content
SummaryLen == 120   \* len() of the summary _enhance_response_with_tool_results adds
MaxResultLen == 4   \* longest tool result handed to the compressor
MaxCalls == 3       \* most tool calls made through one Bridge
\* the default of _trim_conversation_history's parameter max_tokens
max_tokens == 4000
\* AIAgent.max_tool_calls_per_message
max_tool_calls_per_message == 3

(***************************************************************************)
(* JSON values.  None is Python's None; a dict records its members, a list *)
(* its elements, a number its digits.                                      *)
(***************************************************************************)
NoneVal == [t |-> "none", m |-> <<>>, e |-> <<>>]
Dict(members) == [t |-> "dict", m |-> members, e |-> <<>>]
List(elems) == [t |-> "list", m |-> <<>>, e |-> elems]
Num(digits) == [t |-> "num", m |-> digits, e |-> <<>>]
\* {"_value": v}
ValueDict(v) == [t |-> "dict", m |-> <<"_value">>, e |-> <<v>>]

(***************************************************************************)
(* The character alphabet.  "a" stands for one complete object member      *)
(* ("a": 1), "1" for a digit, "x" for a letter of prose; the separating     *)
(* commas of JSON are elided.  "n" stands for the literal null, which the   *)
(* decoder turns into None; it occurs in composed texts only.              *)
(***************************************************************************)
Chars == {"{", "}", "[", "]", "a", "1", " ", "x"}

isspace(c) == c = " "

\* the first index >= from (0-based) that is past the end or holds no whitespace
SkipSpace(s, from) ==
    CHOOSE j \in from..Len(s) :
        /\ \A k \in from..(j - 1) : isspace(s[k + 1])
        /\ (j = Len(s) \/ ~isspace(s[j + 1]))

\* str.find(c, start): the lowest 0-based index >= start holding c, or -1
find(s, c, start) ==
    LET hits == {k \in start..(Len(s) - 1) : s[k + 1] = c}
    IN IF hits = {} THEN -1 ELSE CHOOSE k \in hits : \A h \in hits : k <= h

DecodeError == [ok |-> FALSE, obj |-> NoneVal, end |-> 0]

\* the first index >= from (0-based) that is past the end or holds none of cs
RunEnd(s, from, cs) ==
    CHOOSE j \in from..Len(s) :
        /\ \A k \in from..(j - 1) : s[k + 1] \in cs
        /\ (j = Len(s) \/ s[j + 1] \notin cs)

SelectChars(s, c) == SelectSeq(s, LAMBDA ch : ch = c)

RECURSIVE raw_decode(_, _)
RECURSIVE DecodeElems(_, _, _)

\* the elements of an array whose "[" has been read, up to its "]"
DecodeElems(s, from, acc) ==
    LET p == SkipSpace(s, from)
    IN IF p >= Len(s) THEN DecodeError
       ELSE IF s[p + 1] = "]" THEN [ok |-> TRUE, obj |-> List(acc), end |-> p + 1]
       ELSE LET r == raw_decode(s, p)
            IN IF r.ok THEN DecodeElems(s, r.end, Append(acc, r.obj))
               ELSE DecodeError

\* json.JSONDecoder.raw_decode(s, idx): the value that starts exactly at idx
\* and the index after it, or a JSONDecodeError
raw_decode(s, idx) ==
    IF idx >= Len(s) THEN DecodeError
    ELSE LET c == s[idx + 1]
         IN CASE c = "n" -> [ok |-> TRUE, obj |-> NoneVal, end |-> idx + 1]
              [] c = "1" ->
                   LET stop == RunEnd(s, idx, {"1"})
                   IN [ok |-> TRUE, obj |-> Num(SubSeq(s, idx + 1, stop)), end |-> stop]
              [] c = "{" ->
                   LET stop == RunEnd(s, idx + 1, {"a", " "})
                   IN IF stop < Len(s) /\ s[stop + 1] = "}"
                      THEN [ok |-> TRUE,
                            obj |-> Dict(SelectChars(SubSeq(s, idx + 2, stop), "a")),
                            end |-> stop + 1]
                      ELSE DecodeError
              [] c = "[" -> DecodeElems(s, idx + 1, <<>>)
              [] OTHER -> DecodeError
\* LoadsResult without the "last is None" test
LoadsResult_NoNoneTest(lastObj) ==
    IF lastObj.t # "dict"
    THEN IF lastObj.t = "list" /\ lastObj.e # <<>> /\ lastObj.e[1].t = "dict"
         THEN lastObj.e[1]
         ELSE ValueDict(lastObj)
    ELSE lastObj

\* the tail of safe_json_loads, after the loop over _iter_json_objects
LoadsResult(lastObj) ==
    IF lastObj = NoneVal THEN Dict(<<>>)
    ELSE IF lastObj.t # "dict"
         THEN IF lastObj.t = "list" /\ lastObj.e # <<>> /\ lastObj.e[1].t = "dict"
              THEN lastObj.e[1]
              ELSE ValueDict(lastObj)
         ELSE lastObj

(***************************************************************************)
(* Texts handed to the parser: every string over Chars up to MaxTextLen,   *)
(* and texts composed of JSON values separated by prose.                   *)
(***************************************************************************)
Texts == UNION {[1..n -> Chars] : n \in 0..MaxTextLen}

ValuePieces ==
    { [kind |-> "value", str |-> <<"{", "}">>, val |-> Dict(<<>>)],
      [kind |-> "value", str |-> <<"{", "a", "}">>, val |-> Dict(<<"a">>)],
      [kind |-> "value", str |-> <<"[", "{", "a", "}", "]">>, val |-> List(<<Dict(<<"a">>)>>)] }

ProsePieces ==
    { [kind |-> "prose", str |-> w, val |-> NoneVal] :
        w \in {<<"x">>, <<" ">>, <<"1">>, <<"x", "1">>, <<" ", "x">>, <<"n">>} }

Pieces == ValuePieces \cup ProsePieces

Compositions == UNION {[1..n -> Pieces] : n \in 1..MaxSegs}

RECURSIVE Flatten(_)
Flatten(ps) == IF ps = <<>> THEN <<>> ELSE ps[1].str \o Flatten(Tail(ps))

JsonStart ==
    /\ \/ text \in Texts /\ segs = <<>>
       \/ segs \in Compositions /\ text = Flatten(segs)
    /\ i = 0
    /\ last = NoneVal
    /\ attempts = 0
    /\ yields = 0
    /\ jpc = "scan"
    /\ jresult = NoneVal

\* safe_json_loads returns once the generator is exhausted
LoadsReturn ==
    /\ jpc' = "done"
    /\ jresult' = LoadsResult(last)
    /\ UNCHANGED <<text, segs, i, last, attempts, yields>>

\* while i < n: the condition is false
ScanEnd ==
    /\ jpc = "scan"
    /\ i >= Len(text)
    /\ LoadsReturn

\* only whitespace is left: the inner loop moves i to the end; break
ScanBlank ==
    /\ jpc = "scan"
    /\ i < Len(text)
    /\ SkipSpace(text, i) >= Len(text)
    /\ i' = SkipSpace(text, i)
    /\ jpc' = "done"
    /\ jresult' = LoadsResult(last)
    /\ UNCHANGED <<text, segs, last, attempts, yields>>

\* raw_decode succeeds: yield obj; i = end
ScanDecoded ==
    /\ jpc = "scan"
    /\ i < Len(text)
    /\ LET p == SkipSpace(text, i)
           r == raw_decode(text, p)
       IN /\ p < Len(text)
          /\ r.ok
          /\ last' = r.obj
          /\ i' = r.end
    /\ attempts' = attempts + 1
    /\ yields' = yields + 1
    /\ UNCHANGED <<text, segs, jpc, jresult>>

\* the candidates of the except branch: the next "{" and the next "["
Cand(s, p) == {x \in {find(s, "{", p + 1), find(s, "[", p + 1)} : x # -1}

Min(S) == CHOOSE x \in S : \A y \in S : x <= y

\* ScanSkip searching from the failed position itself
ScanSkip_FromHere ==
    /\ jpc = "scan"
    /\ i < Len(text)
    /\ LET p == SkipSpace(text, i)
       IN /\ p < Len(text)
          /\ ~raw_decode(text, p).ok
          /\ Cand(text, p - 1) # {}
          /\ i' = Min(Cand(text, p - 1))
    /\ attempts' = attempts + 1
    /\ UNCHANGED <<text, segs, last, yields, jpc, jresult>>

\* raw_decode fails and a later "{" or "[" exists: i = min(cand)
ScanSkip ==
    /\ jpc = "scan"
    /\ i < Len(text)
    /\ LET p == SkipSpace(text, i)
       IN /\ p < Len(text)
          /\ ~raw_decode(text, p).ok
          /\ Cand(text, p) # {}
          /\ i' = Min(Cand(text, p))
    /\ attempts' = attempts + 1
    /\ UNCHANGED <<text, segs, last, yields, jpc, jresult>>

\* raw_decode fails and no later "{" or "[" exists: break
ScanGiveUp ==
    /\ jpc = "scan"
    /\ i < Len(text)
    /\ LET p == SkipSpace(text, i)
       IN /\ p < Len(text)
          /\ ~raw_decode(text, p).ok
          /\ Cand(text, p) = {}
          /\ i' = p
    /\ jpc' = "done"
    /\ jresult' = LoadsResult(last)
    /\ attempts' = attempts + 1
    /\ UNCHANGED <<text, segs, last, yields>>

\* the parser is not in use
JsonOff ==
    /\ text = <<>>
    /\ segs = <<>>
    /\ i = 0
    /\ last = NoneVal
    /\ attempts = 0
    /\ yields = 0
    /\ jpc = "off"
    /\ jresult = NoneVal

(***************************************************************************)
(* batch_exec: _local_batch_exec of Client.get_mcp_tools and _batch_exec   *)
(* of AIAgent._add_batch_tool_support (the same code over mcp_funcDict and  *)
(* self.available_tools respectively).                                     *)
(***************************************************************************)
\* the keys of the invoker map when batch_exec runs
KnownTools == {"web_search", "batch_exec"}

\* tool names a caller may pass
ToolArgs == KnownTools \cup {"nope"}

\* an entry of args_list is a mapping ("dict") or anything else ("other")
ArgLists == UNION {[1..n -> {"dict", "other"}] : n \in 0..MaxBatch}

NoEnvelope == [ok |-> FALSE, error |-> "", results |-> <<>>]

BatchStart ==
    /\ b_mode \in {"sequential", "parallel"}
    /\ b_max \in {1, 4}
    /\ b_tool \in ToolArgs
    /\ b_args \in ArgLists
    /\ b_i = 0
    /\ b_results = <<>>
    /\ b_invoked = <<>>
    /\ bpc = "call"
    /\ b_ret = NoEnvelope

BatchOff ==
    /\ b_mode = "sequential"
    /\ b_max = 4
    /\ b_tool = "nope"
    /\ b_args = <<>>
    /\ b_i = 0
    /\ b_results = <<>>
    /\ b_invoked = <<>>
    /\ bpc = "off"
    /\ b_ret = NoEnvelope

\* if tool not in mcp_funcDict: return {"ok": False, "error": ...}
BatchUnknownTool ==
    /\ bpc = "call"
    /\ b_tool \notin KnownTools
    /\ bpc' = "done"
    /\ b_ret' = [ok |-> FALSE, error |-> "unknown tool", results |-> <<>>]
    /\ UNCHANGED <<b_mode, b_max, b_tool, b_args, b_i, b_results, b_invoked>>

\* fn = mcp_funcDict[tool]; results = []
BatchLookup ==
    /\ bpc = "call"
    /\ b_tool \in KnownTools
    /\ bpc' = "loop"
    /\ UNCHANGED <<b_mode, b_max, b_tool, b_args, b_i, b_results, b_invoked, b_ret>>

\* the entry is no mapping: the ValueError is caught and recorded
BatchEntryNotDict ==
    /\ bpc = "loop"
    /\ b_i < Len(b_args)
    /\ b_args[b_i + 1] # "dict"
    /\ b_results' = Append(b_results, [i |-> b_i, ok |-> FALSE, payload |-> "error"])
    /\ b_i' = b_i + 1
    /\ UNCHANGED <<b_mode, b_max, b_tool, b_args, b_invoked, bpc, b_ret>>

\* BatchEntryOk taking the entries from the end when mode is "parallel"
BatchEntryOk_Parallel ==
    /\ bpc = "loop"
    /\ b_i < Len(b_args)
    /\ b_args[b_i + 1] = "dict"
    /\ b_invoked' = Append(b_invoked,
                           [i |-> IF b_mode = "parallel" THEN Len(b_args) - 1 - b_i ELSE b_i,
                            raised |-> FALSE])
    /\ b_results' = Append(b_results, [i |-> b_i, ok |-> TRUE, payload |-> "data"])
    /\ b_i' = b_i + 1
    /\ UNCHANGED <<b_mode, b_max, b_tool, b_args, bpc, b_ret>>

\* data = fn(**a) returns
BatchEntryOk ==
    /\ bpc = "loop"
    /\ b_i < Len(b_args)
    /\ b_args[b_i + 1] = "dict"
    /\ b_invoked' = Append(b_invoked, [i |-> b_i, raised |-> FALSE])
    /\ b_results' = Append(b_results, [i |-> b_i, ok |-> TRUE, payload |-> "data"])
    /\ b_i' = b_i + 1
    /\ UNCHANGED <<b_mode, b_max, b_tool, b_args, bpc, b_ret>>
\* BatchEntryRaise with the exception ending the batch
BatchEntryRaise_Aborts ==
    /\ bpc = "loop"
    /\ b_i < Len(b_args)
    /\ b_args[b_i + 1] = "dict"
    /\ b_invoked' = Append(b_invoked, [i |-> b_i, raised |-> TRUE])
    /\ bpc' = "done"
    /\ b_ret' = [ok |-> FALSE, error |-> "error", results |-> b_results]
    /\ UNCHANGED <<b_mode, b_max, b_tool, b_args, b_i, b_results>>

\* fn(**a) raises: except Exception records the failure and the loop goes on
BatchEntryRaise ==
    /\ bpc = "loop"
    /\ b_i < Len(b_args)
    /\ b_args[b_i + 1] = "dict"
    /\ b_invoked' = Append(b_invoked, [i |-> b_i, raised |-> TRUE])
    /\ b_results' = Append(b_results, [i |-> b_i, ok |-> FALSE, payload |-> "error"])
    /\ b_i' = b_i + 1
    /\ UNCHANGED <<b_mode, b_max, b_tool, b_args, bpc, b_ret>>

\* return {"ok": True, "results": results}
BatchReturn ==
    /\ bpc = "loop"
    /\ b_i >= Len(b_args)
    /\ bpc' = "done"
    /\ b_ret' = [ok |-> TRUE, error |-> "", results |-> b_results]
    /\ UNCHANGED <<b_mode, b_max, b_tool, b_args, b_i, b_results, b_invoked>>

(***************************************************************************)
(* Conversation turns, tool requests and model responses.                  *)
(***************************************************************************)
Turn(role, content, calls, id) ==
    [role |-> role, content |-> content, tool_calls |-> calls, tool_call_id |-> id]

Req(id, name) == [id |-> id, name |-> name]

\* the tool_calls a model response may carry
ToolCallChoices ==
    { <<>>,
      <<Req(1, "web_search")>>,
      <<Req(2, "web_search"), Req(1, "nope")>> }

Contents == {"A", "B"}

\* an assistant turn with one request more than max_tool_calls_per_message
ManyCalls == [k \in 1..(max_tool_calls_per_message + 1) |-> Req(k, "web_search")]

Response(finish, content, calls) ==
    [finish_reason |-> finish, content |-> content, tool_calls |-> calls]

\* finish_reason is "stop", or else "tool_calls" with tool calls and "length"
\* without
GoesOn(tc) == IF tc = <<>> THEN "length" ELSE "tool_calls"

Responses ==
    UNION { { Response(f, c, tc) : f \in {"stop", GoesOn(tc)}, c \in Contents } :
            tc \in ToolCallChoices }

NoResp == Response("", "", <<>>)

\* one dispatch of a tool request: how is "returned", "raised" (the lookup or
\* the call raised) or "unserializable"
Dispatch(id, how) == [id |-> id, how |-> how]

\* a model call of send: tools=self.tools, the list get_mcp_tools stored
ModelEvent == [kind |-> "model", id |-> 0, tools |-> "cached"]
ToolEvent(id) == [kind |-> "tool", id |-> id, tools |-> "none"]

(***************************************************************************)
(* Client.send and Client.rest_message.                                    *)
(***************************************************************************)
\* rest_message: the conversation holds the system turn only
SystemOnly == <<Turn("system", "S", <<>>, 0)>>

FailContent == "[round limit exceeded]"

\* the state after Client() and set_model()
SendStart ==
    /\ messages = SystemOnly
    /\ round_idx = 0
    /\ spc = "idle"
    /\ resp = NoResp
    /\ s_resps = <<>>
    /\ call_k = 0
    /\ s_ret = ""
    /\ s_terminal = "none"
    /\ s_events = <<>>
    /\ s_start = <<>>
    /\ sends = 0
    /\ s_log = <<>>

SendOff ==
    /\ messages = <<>>
    /\ round_idx = 0
    /\ spc = "off"
    /\ resp = NoResp
    /\ s_resps = <<>>
    /\ call_k = 0
    /\ s_ret = ""
    /\ s_terminal = "none"
    /\ s_events = <<>>
    /\ s_start = <<>>
    /\ sends = 0
    /\ s_log = <<>>

RestMessage ==
    /\ spc = "idle"
    /\ messages # SystemOnly
    /\ messages' = SystemOnly
    /\ UNCHANGED <<round_idx, spc, resp, s_resps, call_k, s_ret, s_terminal, s_events,
                   s_start, sends, s_log>>

\* send(user_input): the user turn is appended; round_idx = 1
SendBegin ==
    /\ spc = "idle"
    /\ sends < MaxSends
    /\ Len(messages) <= MaxCarry
    /\ messages' = Append(messages, Turn("user", "U", <<>>, 0))
    /\ round_idx' = 1
    /\ spc' = "loop"
    /\ resp' = NoResp
    /\ s_resps' = <<>>
    /\ call_k' = 0
    /\ s_ret' = ""
    /\ s_terminal' = "none"
    /\ s_events' = <<>>
    /\ s_start' = messages
    /\ sends' = sends + 1
    /\ s_log' = <<>>

\* ModelRaises taking the conversation back to where send found it
ModelRaises_RollsBack ==
    /\ spc = "loop"
    /\ round_idx <= MAX_TOOL_ROUNDS
    /\ s_events' = Append(s_events, ModelEvent)
    /\ spc' = "idle"
    /\ s_terminal' = "raised"
    /\ messages' = s_start
    /\ UNCHANGED <<round_idx, resp, s_resps, call_k, s_ret, s_start, sends, s_log>>

\* chat.completions.create raises: send re-raises to its caller
ModelRaises ==
    /\ spc = "loop"
    /\ round_idx <= MAX_TOOL_ROUNDS
    /\ s_events' = Append(s_events, ModelEvent)
    /\ spc' = "idle"
    /\ s_terminal' = "raised"
    /\ UNCHANGED <<messages, round_idx, resp, s_resps, call_k, s_ret, s_start, sends, s_log>>
\* ModelStops returning before the response is appended to messages
ModelStops_NoAppend ==
    /\ spc = "loop"
    /\ round_idx <= MAX_TOOL_ROUNDS
    /\ \E r \in Responses :
        /\ r.finish_reason = "stop"
        /\ resp' = r
        /\ s_resps' = Append(s_resps, r)
        /\ s_ret' = r.content
    /\ s_events' = Append(s_events, ModelEvent)
    /\ spc' = "idle"
    /\ s_terminal' = "stopped-by-model"
    /\ UNCHANGED <<messages, round_idx, call_k, s_start, sends, s_log>>

\* the response is appended; finish_reason == 'stop': return resp_message
ModelStops ==
    /\ spc = "loop"
    /\ round_idx <= MAX_TOOL_ROUNDS
    /\ \E r \in Responses :
        /\ r.finish_reason = "stop"
        /\ resp' = r
        /\ s_resps' = Append(s_resps, r)
        /\ messages' = Append(messages, Turn("assistant", r.content, r.tool_calls, 0))
        /\ s_ret' = r.content
    /\ s_events' = Append(s_events, ModelEvent)
    /\ spc' = "idle"
    /\ s_terminal' = "stopped-by-model"
    /\ UNCHANGED <<round_idx, call_k, s_start, sends, s_log>>

\* the response is appended; it carries tool calls: the for loop starts
ModelRequestsTools ==
    /\ spc = "loop"
    /\ round_idx <= MAX_TOOL_ROUNDS
    /\ \E r \in Responses :
        /\ r.finish_reason # "stop"
        /\ r.tool_calls # <<>>
        /\ resp' = r
        /\ s_resps' = Append(s_resps, r)
        /\ messages' = Append(messages, Turn("assistant", r.content, r.tool_calls, 0))
    /\ s_events' = Append(s_events, ModelEvent)
    /\ spc' = "tools"
    /\ call_k' = 1
    /\ UNCHANGED <<round_idx, s_ret, s_terminal, s_start, sends, s_log>>

\* ModelRequestsTools for a response that carries ManyCalls
ModelRequestsMany ==
    /\ spc = "loop"
    /\ round_idx <= MAX_TOOL_ROUNDS
    /\ LET r == Response("tool_calls", "A", ManyCalls)
       IN /\ resp' = r
          /\ s_resps' = Append(s_resps, r)
          /\ messages' = Append(messages, Turn("assistant", r.content, r.tool_calls, 0))
    /\ s_events' = Append(s_events, ModelEvent)
    /\ spc' = "tools"
    /\ call_k' = 1
    /\ UNCHANGED <<round_idx, s_ret, s_terminal, s_start, sends, s_log>>

\* the response is appended; no 'stop' and no tool calls: round_idx += 1
ModelGoesOn ==
    /\ spc = "loop"
    /\ round_idx <= MAX_TOOL_ROUNDS
    /\ \E r \in Responses :
        /\ r.finish_reason # "stop"
        /\ r.tool_calls = <<>>
        /\ resp' = r
        /\ s_resps' = Append(s_resps, r)
        /\ messages' = Append(messages, Turn("assistant", r.content, r.tool_calls, 0))
    /\ s_events' = Append(s_events, ModelEvent)
    /\ round_idx' = round_idx + 1
    /\ UNCHANGED <<spc, call_k, s_ret, s_terminal, s_start, sends, s_log>>
\* ToolTurn without the tool_call_id of the call
ToolTurn_NoId(call, content) == Turn("tool", content, <<>>, 0)

\* the tool turn appended for a call
ToolTurn(call, content) == Turn("tool", content, <<>>, call.id)
\* NextCall without the round_idx += 1 at the end of a round
NextCall_NoIncrement ==
    IF call_k < Len(resp.tool_calls)
    THEN call_k' = call_k + 1 /\ UNCHANGED <<round_idx, spc>>
    ELSE call_k' = 0 /\ spc' = "loop" /\ UNCHANGED round_idx

\* after the tool turn of call k: the next call, or round_idx += 1
NextCall ==
    IF call_k < Len(resp.tool_calls)
    THEN call_k' = call_k + 1 /\ UNCHANGED <<round_idx, spc>>
    ELSE call_k' = 0 /\ round_idx' = round_idx + 1 /\ spc' = "loop"

\* self.funcDict[func_name](**args) returns and its result is serialized
ToolReturns ==
    /\ spc = "tools"
    /\ LET call == resp.tool_calls[call_k]
       IN /\ call.name \in KnownTools
          /\ messages' = Append(messages, ToolTurn(call, "ok"))
          /\ s_events' = Append(s_events, ToolEvent(call.id))
          /\ s_log' = Append(s_log, Dispatch(call.id, "returned"))
    /\ NextCall
    /\ UNCHANGED <<resp, s_resps, s_ret, s_terminal, s_start, sends>>

\* ToolRaises without the try/except around the call: the exception leaves send
ToolRaises_Propagates ==
    /\ spc = "tools"
    /\ LET call == resp.tool_calls[call_k]
       IN /\ s_events' = Append(s_events, ToolEvent(call.id))
          /\ s_log' = Append(s_log, Dispatch(call.id, "raised"))
    /\ spc' = "idle"
    /\ s_terminal' = "raised"
    /\ UNCHANGED <<messages, round_idx, resp, s_resps, call_k, s_ret, s_start, sends>>

\* the lookup or the call raises: the exception text becomes the result
ToolRaises ==
    /\ spc = "tools"
    /\ LET call == resp.tool_calls[call_k]
       IN /\ messages' = Append(messages, ToolTurn(call, "err"))
          /\ s_events' = Append(s_events, ToolEvent(call.id))
          /\ s_log' = Append(s_log, Dispatch(call.id, "raised"))
    /\ NextCall
    /\ UNCHANGED <<resp, s_resps, s_ret, s_terminal, s_start, sends>>

\* json.dumps(result, default=_json_default) raises outside the try: send raises
ToolResultUnserializable ==
    /\ spc = "tools"
    /\ resp.tool_calls[call_k].name \in KnownTools
    /\ s_events' = Append(s_events, ToolEvent(resp.tool_calls[call_k].id))
    /\ s_log' = Append(s_log, Dispatch(resp.tool_calls[call_k].id, "unserializable"))
    /\ spc' = "idle"
    /\ s_terminal' = "raised"
    /\ UNCHANGED <<messages, round_idx, resp, s_resps, call_k, s_ret, s_start, sends>>

\* while round_idx <= MAX_TOOL_ROUNDS is false: fail_message is appended and returned
SendExhausted ==
    /\ spc = "loop"
    /\ round_idx > MAX_TOOL_ROUNDS
    /\ messages' = Append(messages, Turn("assistant", FailContent, <<>>, 0))
    /\ s_ret' = FailContent
    /\ spc' = "idle"
    /\ s_terminal' = "round-limit-exhausted"
    /\ UNCHANGED <<round_idx, resp, s_resps, call_k, s_events, s_start, sends, s_log>>

(***************************************************************************)
(* AIAgent: contents, _enhance_response_with_tool_results and              *)
(* _trim_conversation_history.                                             *)
(***************************************************************************)
\* contents the model may answer with: short, long, or text that holds a
\* tool-call pattern _parse_tool_calls recognizes
AgentContents == {"A", "BIG", "T"}

AgentResponses ==
    UNION { { Response(f, c, tc) : f \in {"stop", GoesOn(tc)}, c \in AgentContents } :
            tc \in ToolCallChoices }

\* the content with the summary block appended ("--- tool call result summary ---")
Enhance(c) ==
    CASE c = "A" -> "A+summary"
      [] c = "BIG" -> "BIG+summary"
      [] c = "T" -> "T+summary"
      [] OTHER -> c

Enhanced == {"A+summary", "BIG+summary", "T+summary"}

\* "tool call result" in msg.get("content", "")
HasMarker(c) == c \in Enhanced

\* _parse_tool_calls(response) finds a call of an available tool
HasTextToolCalls(c) == c \in {"T", "T+summary"}

\* len(msg["content"])
LenOf(c) ==
    CASE c \in {"BIG"} -> BigLen
      [] c \in {"BIG+summary"} -> BigLen + SummaryLen
      [] c \in {"A+summary", "T+summary"} -> ShortLen + SummaryLen
      [] OTHER -> ShortLen

RECURSIVE TotalChars(_)
TotalChars(h) == IF h = <<>> THEN 0 ELSE LenOf(h[1].content) + TotalChars(Tail(h))

\* the for loop of the over-budget branch, at element j of reversed(history[1:])
RECURSIVE TrimScan(_, _, _, _, _)
TrimScan(system_message, rest, j, important_messages, recent_messages) ==
    IF j = 0 THEN <<important_messages, recent_messages>>
    ELSE LET msg == rest[j]
             recent == IF Len(recent_messages) < 8
                       THEN <<msg>> \o recent_messages
                       ELSE recent_messages
             important == IF Len(recent_messages) >= 8 /\ HasMarker(msg.content)
                          THEN <<msg>> \o important_messages
                          ELSE important_messages
             current_chars == TotalChars(<<system_message>> \o important \o recent)
         IN IF current_chars \div 4 <= (max_tokens * 8) \div 10
            THEN <<important, recent>>
            ELSE TrimScan(system_message, rest, j - 1, important, recent)

\* Trim with the kept summaries put after the recent turns
Trim_ImportantLast(h) ==
    IF Len(h) <= 10 THEN h
    ELSE IF TotalChars(h) \div 4 > max_tokens
         THEN LET kept == TrimScan(h[1], Tail(h), Len(h) - 1, <<>>, <<>>)
              IN <<h[1]>> \o kept[2] \o kept[1]
         ELSE <<h[1]>> \o SubSeq(h, Len(h) - 8, Len(h))

\* _trim_conversation_history: the conversation it leaves
Trim(h) ==
    IF Len(h) <= 10 THEN h
    ELSE IF TotalChars(h) \div 4 > max_tokens
         THEN LET kept == TrimScan(h[1], Tail(h), Len(h) - 1, <<>>, <<>>)
              IN <<h[1]>> \o kept[1] \o kept[2]
         ELSE <<h[1]>> \o SubSeq(h, Len(h) - 8, Len(h))

\* _has_pending_tool_calls(response_content)
HasPending(content, h) ==
    \/ HasTextToolCalls(content)
    \/ h # <<>> /\ h[Len(h)].role = "tool"

(***************************************************************************)
(* AIAgent.process_message, with _get_intelligent_response and             *)
(* _handle_standard_tool_calls.                                            *)
(***************************************************************************)
\* _init_conversation_history: the system turn and the welcome message
InitialHistory == <<Turn("system", "S", <<>>, 0), Turn("assistant", "W", <<>>, 0)>>

\* the apology text the except branches return in place of a model answer
ErrorText == "ERR"

\* the model call that opens a round: the finish_reason, the content and the
\* tool requests of its response ("error" when the call failed).  For every
\* call _call_ai_model asks the Bridge anew: tools = self.mcp_bridge.get_tools(),
\* which runs list_tools on the provider.
AgentModelEvent(finish, content, calls) ==
    [kind |-> "model", id |-> 0, how |-> finish, content |-> content, calls |-> calls,
     tools |-> "queried"]

\* the second model call of a round, made after the tool requests
AgentFollowupEvent ==
    [kind |-> "followup", id |-> 0, how |-> "", content |-> "", calls |-> <<>>,
     tools |-> "queried"]

\* a tool request taken from the for loop of _handle_standard_tool_calls: how
\* is "returned", "raised", or "undecodable" (json.loads of its arguments
\* raised and the tool was not invoked)
AgentToolEvent(id, how) ==
    [kind |-> "tool", id |-> id, how |-> how, content |-> "", calls |-> <<>>,
     tools |-> "none"]

AgentStart ==
    /\ conversation_history = InitialHistory
    /\ tool_call_history = <<>>
    /\ current_round = 0
    /\ final_response = ""
    /\ response_content = ""
    /\ finish_reason = ""
    /\ apc = "idle"
    /\ a_resp = NoResp
    /\ a_k = 0
    /\ tool_results = <<>>
    /\ a_ret = ""
    /\ a_terminal = "none"
    /\ a_executed = 0
    /\ a_calls = 0
    /\ msgs = 0
    /\ a_log = <<>>

AgentOff ==
    /\ conversation_history = <<>>
    /\ tool_call_history = <<>>
    /\ current_round = 0
    /\ final_response = ""
    /\ response_content = ""
    /\ finish_reason = ""
    /\ apc = "off"
    /\ a_resp = NoResp
    /\ a_k = 0
    /\ tool_results = <<>>
    /\ a_ret = ""
    /\ a_terminal = "none"
    /\ a_executed = 0
    /\ a_calls = 0
    /\ msgs = 0
    /\ a_log = <<>>

\* process_message(message): the user turn is appended; current_round = 0
ProcessBegin ==
    /\ apc = "idle"
    /\ msgs < MaxMessages
    /\ Len(conversation_history) <= AgentMaxCarry
    /\ conversation_history' = Append(conversation_history, Turn("user", "U", <<>>, 0))
    /\ current_round' = 0
    /\ final_response' = ""
    /\ response_content' = ""
    /\ finish_reason' = ""
    /\ apc' = "loop"
    /\ a_resp' = NoResp
    /\ a_k' = 0
    /\ tool_results' = <<>>
    /\ a_ret' = ""
    /\ a_terminal' = "none"
    /\ a_calls' = 0
    /\ msgs' = msgs + 1
    /\ a_log' = <<>>
    /\ UNCHANGED <<tool_call_history, a_executed>>

\* the end of process_message: the assistant turn is appended, the history
\* trimmed, and final_response returned
Finish(answer, how) ==
    /\ final_response' = answer
    /\ conversation_history' =
           Trim(Append(conversation_history, Turn("assistant", answer, <<>>, 0)))
    /\ a_ret' = answer
    /\ a_terminal' = how
    /\ apc' = "idle"
    /\ finish_reason' = ""
    /\ a_resp' = NoResp
    /\ a_k' = 0
    /\ tool_results' = <<>>

\* the tail of a round: 'stop' ends the loop, pending tool calls continue it,
\* anything else ends it
RoundEnd(content, finish) ==
    /\ response_content' = content
    /\ IF finish = "stop"
       THEN Finish(content, "stopped-by-model")
       ELSE IF HasPending(content, conversation_history)
            THEN /\ apc' = "loop"
                 /\ finish_reason' = finish
                 /\ a_resp' = NoResp
                 /\ a_k' = 0
                 /\ tool_results' = <<>>
                 /\ UNCHANGED <<final_response, conversation_history, a_ret, a_terminal>>
            ELSE Finish(content, "answered")

\* _call_ai_model raises, or the response has no choices: the apology text
\* comes back with finish_reason None
AgentModelFails ==
    /\ apc = "loop"
    /\ current_round < AGENT_MAX_TOOL_ROUNDS
    /\ current_round' = current_round + 1
    /\ a_calls' = a_calls + 1
    /\ RoundEnd(ErrorText, "none")
    /\ a_log' = Append(a_log, AgentModelEvent("error", ErrorText, <<>>))
    /\ UNCHANGED <<tool_call_history, a_executed, msgs>>

\* the response carries no tool calls: its content is the round's content
AgentModelAnswers ==
    /\ apc = "loop"
    /\ current_round < AGENT_MAX_TOOL_ROUNDS
    /\ current_round' = current_round + 1
    /\ a_calls' = a_calls + 1
    /\ \E r \in AgentResponses :
        /\ r.tool_calls = <<>>
        /\ RoundEnd(r.content, r.finish_reason)
        /\ a_log' = Append(a_log, AgentModelEvent(r.finish_reason, r.content, <<>>))
    /\ UNCHANGED <<tool_call_history, a_executed, msgs>>

\* the response carries tool calls: _handle_standard_tool_calls starts.  The
\* assistant message itself is not appended to conversation_history, and its
\* content is not used (one content stands for all).
AgentModelRequestsTools ==
    /\ apc = "loop"
    /\ current_round < AGENT_MAX_TOOL_ROUNDS
    /\ current_round' = current_round + 1
    /\ a_calls' = a_calls + 1
    /\ \E r \in AgentResponses :
        /\ r.tool_calls # <<>>
        /\ a_resp' = r
        /\ finish_reason' = r.finish_reason
        /\ r.content = "A"
    /\ a_k' = 1
    /\ tool_results' = <<>>
    /\ apc' = "tools"
    /\ a_log' = Append(a_log, AgentModelEvent(a_resp'.finish_reason, a_resp'.content,
                                               a_resp'.tool_calls))
    /\ UNCHANGED <<conversation_history, tool_call_history, final_response,
                   response_content, a_ret, a_terminal, a_executed, msgs>>

\* AgentModelRequestsTools for a response that carries ManyCalls
AgentModelRequestsMany ==
    /\ apc = "loop"
    /\ current_round < AGENT_MAX_TOOL_ROUNDS
    /\ current_round' = current_round + 1
    /\ a_calls' = a_calls + 1
    /\ a_resp' = Response("tool_calls", "A", ManyCalls)
    /\ finish_reason' = "tool_calls"
    /\ a_k' = 1
    /\ tool_results' = <<>>
    /\ apc' = "tools"
    /\ a_log' = Append(a_log, AgentModelEvent("tool_calls", "A", ManyCalls))
    /\ UNCHANGED <<conversation_history, tool_call_history, final_response,
                   response_content, a_ret, a_terminal, a_executed, msgs>>

\* AgentNextCall that stays at the request it has just handled
AgentNextCall_Repeats == a_k' = a_k /\ apc' = "tools"

\* after the tool turn of call k: the next call, or the follow-up model call
AgentNextCall ==
    IF a_k < Len(a_resp.tool_calls)
    THEN a_k' = a_k + 1 /\ apc' = "tools"
    ELSE a_k' = 0 /\ apc' = "followup"

\* json.loads(arguments) raises: the outer except returns the apology text;
\* the remaining calls and the follow-up model call are skipped
AgentArgsUndecodable ==
    /\ apc = "tools"
    /\ RoundEnd(ErrorText, finish_reason)
    /\ a_log' = Append(a_log, AgentToolEvent(a_resp.tool_calls[a_k].id, "undecodable"))
    /\ UNCHANGED <<tool_call_history, current_round, a_executed, a_calls, msgs>>

\* call_tool returns: the tool turn is appended
AgentToolReturns ==
    /\ apc = "tools"
    /\ LET call == a_resp.tool_calls[a_k]
       IN /\ call.name \in KnownTools
          /\ conversation_history' = Append(conversation_history, ToolTurn(call, "ok"))
    /\ tool_results' = Append(tool_results, TRUE)
    /\ a_executed' = a_executed + 1
    /\ AgentNextCall
    /\ a_log' = Append(a_log, AgentToolEvent(a_resp.tool_calls[a_k].id, "returned"))
    /\ UNCHANGED <<tool_call_history, current_round, final_response, response_content,
                   finish_reason, a_resp, a_ret, a_terminal, a_calls, msgs>>

\* call_tool raises (unknown tool included): the error tool turn is appended
AgentToolRaises ==
    /\ apc = "tools"
    /\ LET call == a_resp.tool_calls[a_k]
       IN conversation_history' = Append(conversation_history, ToolTurn(call, "Error"))
    /\ tool_results' = Append(tool_results, FALSE)
    /\ a_executed' = a_executed + 1
    /\ AgentNextCall
    /\ a_log' = Append(a_log, AgentToolEvent(a_resp.tool_calls[a_k].id, "raised"))
    /\ UNCHANGED <<tool_call_history, current_round, final_response, response_content,
                   finish_reason, a_resp, a_ret, a_terminal, a_calls, msgs>>

\* the second _call_ai_model raises or brings no choices: the apology text
AgentFollowupFails ==
    /\ apc = "followup"
    /\ a_calls' = a_calls + 1
    /\ RoundEnd(ErrorText, finish_reason)
    /\ a_log' = Append(a_log, AgentFollowupEvent)
    /\ UNCHANGED <<tool_call_history, current_round, a_executed, msgs>>

\* the second _call_ai_model answers: its content plus the summary of the
\* tool results is the round's content; its own tool calls are not executed
AgentFollowupAnswers ==
    /\ apc = "followup"
    /\ a_calls' = a_calls + 1
    /\ \E c \in AgentContents : RoundEnd(Enhance(c), finish_reason)
    /\ a_log' = Append(a_log, AgentFollowupEvent)
    /\ UNCHANGED <<tool_call_history, current_round, a_executed, msgs>>

\* while current_round < MAX_TOOL_ROUNDS is false, final_response still empty:
\* the last response_content is used
AgentExhausted ==
    /\ apc = "loop"
    /\ current_round >= AGENT_MAX_TOOL_ROUNDS
    /\ Finish(response_content, "round-limit-exhausted")
    /\ UNCHANGED <<tool_call_history, current_round, response_content, a_executed,
                   a_calls, msgs, a_log>>

\* ResetConversation without the system turn
ResetConversation_NoSystem ==
    /\ apc = "idle"
    /\ conversation_history # InitialHistory
    /\ conversation_history' = Tail(InitialHistory)
    /\ UNCHANGED <<tool_call_history, current_round, final_response, response_content,
                   finish_reason, apc, a_resp, a_k, tool_results, a_ret, a_terminal,
                   a_executed, a_calls, msgs, a_log>>

\* reset_conversation: _init_conversation_history builds the history anew
ResetConversation ==
    /\ apc = "idle"
    /\ conversation_history # InitialHistory
    /\ conversation_history' = InitialHistory
    /\ UNCHANGED <<tool_call_history, current_round, final_response, response_content,
                   finish_reason, apc, a_resp, a_k, tool_results, a_ret, a_terminal,
                   a_executed, a_calls, msgs, a_log>>

(***************************************************************************)
(* Client.get_mcp_tools: the registry built from the configured providers. *)
(***************************************************************************)
ProviderNames == <<"p1", "p2">>

ProviderTools == {{"status"}, {"status", "web_search"}, {"web_search"}}

\* a configured provider: its name, its disabled flag, the tools it exposes
Server(name, disabled, tools) == [name |-> name, disabled |-> disabled, tools |-> tools]

\* a descriptor of mcp_tools and the provider it came from
Descriptor(name, provider) == [name |-> name, provider |-> provider]

\* a set of tool names as the list a provider returns them in
RECURSIVE AsList(_)
AsList(S) ==
    IF S = {} THEN <<>>
    ELSE LET x == CHOOSE y \in S : TRUE IN <<x>> \o AsList(S \ {x})

Configs ==
    { <<Server(ProviderNames[1], d1, t1), Server(ProviderNames[2], d2, t2)>> :
        d1 \in BOOLEAN, t1 \in ProviderTools, d2 \in BOOLEAN, t2 \in ProviderTools }

EmptyMap == [n \in {} |-> ""]

\* dict.update / item assignment: every name of names now maps to provider
Update(map, names, provider) ==
    [n \in DOMAIN map \cup names |-> IF n \in names THEN provider ELSE map[n]]

RegistryStart ==
    /\ servers \in Configs
    /\ srv = 0
    /\ mcp_tools = <<>>
    /\ mcp_funcDict = EmptyMap
    /\ mcp_service_info = <<>>
    /\ tool_to_service_map = EmptyMap
    /\ mcp_bridges = <<>>
    /\ started = {}
    /\ rpc = "loop"

RegistryOff ==
    /\ servers = <<>>
    /\ srv = 0
    /\ mcp_tools = <<>>
    /\ mcp_funcDict = EmptyMap
    /\ mcp_service_info = <<>>
    /\ tool_to_service_map = EmptyMap
    /\ mcp_bridges = <<>>
    /\ started = {}
    /\ rpc = "off"

\* the provider the for loop is at
Current == servers[srv + 1]

\* cfg.get("disabled"): continue
SkipDisabled ==
    /\ rpc = "loop"
    /\ srv < Len(servers)
    /\ Current.disabled
    /\ srv' = srv + 1
    /\ UNCHANGED <<servers, mcp_tools, mcp_funcDict, mcp_service_info,
                   tool_to_service_map, mcp_bridges, started, rpc>>

\* MCPBridge(...) raises: nothing of this provider is registered
BridgeFailsToStart ==
    /\ rpc = "loop"
    /\ srv < Len(servers)
    /\ ~Current.disabled
    /\ srv' = srv + 1
    /\ UNCHANGED <<servers, mcp_tools, mcp_funcDict, mcp_service_info,
                   tool_to_service_map, mcp_bridges, started, rpc>>

\* the Bridge is built, then get_tools or get_service_info raises
DiscoveryFails ==
    /\ rpc = "loop"
    /\ srv < Len(servers)
    /\ ~Current.disabled
    /\ mcp_bridges' = Append(mcp_bridges, Current.name)
    /\ srv' = srv + 1
    /\ UNCHANGED <<servers, mcp_tools, mcp_funcDict, mcp_service_info,
                   tool_to_service_map, started, rpc>>

\* mcp_tools.extend(tools) and mcp_service_info[name] = ... are done, then
\* get_func_map raises
FuncMapFails ==
    /\ rpc = "loop"
    /\ srv < Len(servers)
    /\ ~Current.disabled
    /\ mcp_bridges' = Append(mcp_bridges, Current.name)
    /\ mcp_tools' = mcp_tools \o
           [k \in 1..Len(AsList(Current.tools)) |->
               Descriptor(AsList(Current.tools)[k], Current.name)]
    /\ mcp_service_info' =
           Append(mcp_service_info, [name |-> Current.name, tools |-> Current.tools])
    /\ srv' = srv + 1
    /\ UNCHANGED <<servers, mcp_funcDict, tool_to_service_map, started, rpc>>

\* ProviderReady without mcp_funcDict.update(bridge.get_func_map())
ProviderReady_NoInvokers ==
    /\ rpc = "loop"
    /\ srv < Len(servers)
    /\ ~Current.disabled
    /\ mcp_bridges' = Append(mcp_bridges, Current.name)
    /\ mcp_tools' = mcp_tools \o
           [k \in 1..Len(AsList(Current.tools)) |->
               Descriptor(AsList(Current.tools)[k], Current.name)]
    /\ mcp_service_info' =
           Append(mcp_service_info, [name |-> Current.name, tools |-> Current.tools])
    /\ started' = started \cup {Current.name}
    /\ srv' = srv + 1
    /\ UNCHANGED <<servers, mcp_funcDict, tool_to_service_map, rpc>>

\* the loop body runs to its end: descriptors, service info and invokers of
\* the provider are merged
ProviderReady ==
    /\ rpc = "loop"
    /\ srv < Len(servers)
    /\ ~Current.disabled
    /\ mcp_bridges' = Append(mcp_bridges, Current.name)
    /\ mcp_tools' = mcp_tools \o
           [k \in 1..Len(AsList(Current.tools)) |->
               Descriptor(AsList(Current.tools)[k], Current.name)]
    /\ mcp_service_info' =
           Append(mcp_service_info, [name |-> Current.name, tools |-> Current.tools])
    /\ mcp_funcDict' = Update(mcp_funcDict, Current.tools, Current.name)
    /\ started' = started \cup {Current.name}
    /\ srv' = srv + 1
    /\ UNCHANGED <<servers, tool_to_service_map, rpc>>

\* _tool_to_service_map built from mcp_service_info in insertion order
RECURSIVE ServiceMap(_, _)
ServiceMap(info, map) ==
    IF info = <<>> THEN map
    ELSE ServiceMap(Tail(info), Update(map, info[1].tools, info[1].name))

\* after the loop: the service map is built and batch_exec is added
RegistryFinish ==
    /\ rpc = "loop"
    /\ srv >= Len(servers)
    /\ tool_to_service_map' =
           Update(ServiceMap(mcp_service_info, EmptyMap), {"batch_exec"}, "local-batch")
    /\ mcp_tools' = Append(mcp_tools, Descriptor("batch_exec", "local-batch"))
    /\ mcp_funcDict' = Update(mcp_funcDict, {"batch_exec"}, "local-batch")
    /\ rpc' = "done"
    /\ UNCHANGED <<servers, srv, mcp_service_info, mcp_bridges, started>>

(***************************************************************************)
(* MCPBridge.stop (app/mcp/mcp_remote.py), called by any of several        *)
(* callers: explicit calls, the atexit hook, Client._shutdown_mcp.         *)
(***************************************************************************)
Callers == {"c1", "c2"}

\* the state after a successful MCPBridge(...)
BridgeStart ==
    /\ stopped = FALSE
    /\ loop_running = TRUE
    /\ thread_alive = TRUE
    /\ connected = TRUE
    /\ stop_signalled = FALSE
    /\ tpc = [c \in Callers |-> "idle"]
    /\ stop_calls = 0
    /\ completed = 0
    /\ noops = 0
    /\ late_noops = 0
    /\ closes = 0
    /\ loop_stops = 0
    /\ joins = 0

BridgeOff ==
    /\ stopped = FALSE
    /\ loop_running = FALSE
    /\ thread_alive = FALSE
    /\ connected = FALSE
    /\ stop_signalled = FALSE
    /\ tpc = [c \in Callers |-> "off"]
    /\ stop_calls = 0
    /\ completed = 0
    /\ noops = 0
    /\ late_noops = 0
    /\ closes = 0
    /\ loop_stops = 0
    /\ joins = 0
\* StopEnter without the test of _stopped
StopEnter_NoTest(c) ==
    /\ tpc[c] = "idle"
    /\ stop_calls < MaxStopCalls
    /\ stop_calls' = stop_calls + 1
    /\ tpc' = [tpc EXCEPT ![c] = "mark"]
    /\ UNCHANGED <<stopped, loop_running, thread_alive, connected, stop_signalled,
                   completed, noops, late_noops, closes, loop_stops, joins>>

\* stop(): if getattr(self, "_stopped", False): return
StopEnter(c) ==
    /\ tpc[c] = "idle"
    /\ stop_calls < MaxStopCalls
    /\ stop_calls' = stop_calls + 1
    /\ IF stopped
       THEN /\ noops' = noops + 1
            /\ late_noops' = IF completed >= 1 THEN late_noops + 1 ELSE late_noops
            /\ UNCHANGED tpc
       ELSE /\ tpc' = [tpc EXCEPT ![c] = "mark"]
            /\ UNCHANGED <<noops, late_noops>>
    /\ UNCHANGED <<stopped, loop_running, thread_alive, connected, stop_signalled,
                   completed, closes, loop_stops, joins>>

\* self._stopped = True
StopMark(c) ==
    /\ tpc[c] = "mark"
    /\ stopped' = TRUE
    /\ tpc' = [tpc EXCEPT ![c] = "close"]
    /\ UNCHANGED <<loop_running, thread_alive, connected, stop_signalled, stop_calls,
                   completed, noops, late_noops, closes, loop_stops, joins>>

\* the loop is running: __aexit__ is submitted and completes within 1.0 s
StopCloses(c) ==
    /\ tpc[c] = "close"
    /\ loop_running
    /\ closes' = closes + 1
    /\ connected' = FALSE
    /\ tpc' = [tpc EXCEPT ![c] = "signal"]
    /\ UNCHANGED <<stopped, loop_running, thread_alive, stop_signalled, stop_calls,
                   completed, noops, late_noops, loop_stops, joins>>

StopCloseFails_Returns(c) ==
    /\ tpc[c] = "close"
    /\ loop_running
    /\ closes' = closes + 1
    /\ completed' = completed + 1
    /\ tpc' = [tpc EXCEPT ![c] = "idle"]
    /\ UNCHANGED <<stopped, loop_running, thread_alive, connected, stop_signalled,
                   stop_calls, noops, late_noops, loop_stops, joins>>

\* __aexit__ is submitted and raises or times out: except Exception: pass
StopCloseFails(c) ==
    /\ tpc[c] = "close"
    /\ loop_running
    /\ closes' = closes + 1
    /\ tpc' = [tpc EXCEPT ![c] = "signal"]
    /\ UNCHANGED <<stopped, loop_running, thread_alive, connected, stop_signalled,
                   stop_calls, completed, noops, late_noops, loop_stops, joins>>

\* the loop is not running: no close is attempted
StopCloseSkipped(c) ==
    /\ tpc[c] = "close"
    /\ ~loop_running
    /\ tpc' = [tpc EXCEPT ![c] = "signal"]
    /\ UNCHANGED <<stopped, loop_running, thread_alive, connected, stop_signalled,
                   stop_calls, completed, noops, late_noops, closes, loop_stops, joins>>

\* finally: if the loop is running, call_soon_threadsafe(self._loop.stop)
StopSignals(c) ==
    /\ tpc[c] = "signal"
    /\ IF loop_running
       THEN loop_stops' = loop_stops + 1 /\ stop_signalled' = TRUE
       ELSE UNCHANGED <<loop_stops, stop_signalled>>
    /\ tpc' = [tpc EXCEPT ![c] = "join"]
    /\ UNCHANGED <<stopped, loop_running, thread_alive, connected, stop_calls,
                   completed, noops, late_noops, closes, joins>>

\* the loop processes the stop: run_forever returns and the worker ends
WorkerExits ==
    /\ stop_signalled
    /\ thread_alive
    /\ loop_running' = FALSE
    /\ thread_alive' = FALSE
    /\ UNCHANGED <<stopped, connected, stop_signalled, tpc, stop_calls, completed,
                   noops, late_noops, closes, loop_stops, joins>>

\* if the worker is alive, join(timeout=1.0); stop() returns whether or not
\* the worker has ended
StopJoins(c) ==
    /\ tpc[c] = "join"
    /\ joins' = IF thread_alive THEN joins + 1 ELSE joins
    /\ completed' = completed + 1
    /\ tpc' = [tpc EXCEPT ![c] = "idle"]
    /\ UNCHANGED <<stopped, loop_running, thread_alive, connected, stop_signalled,
                   stop_calls, noops, late_noops, closes, loop_stops>>

(***************************************************************************)
(* MCPBridge.__init__ and the callers built by MCPBridge._make_caller      *)
(* (app/mcp/mcp_remote.py).  What the provider does with a call is the     *)
(* environment's choice, within what the state of the Bridge allows.       *)
(***************************************************************************)
\* how a call of _call ended: failure is what happened to the provider call,
\* ended is "returned" or "raised", value is what was returned
Call(failure, ended, value) == [failure |-> failure, ended |-> ended, value |-> value]

NoCall == Call("none", "none", "none")

\* MCPBridge(...) has been called and has validated its arguments
BridgeNew ==
    /\ stopped = FALSE
    /\ loop_running = FALSE
    /\ thread_alive = FALSE
    /\ connected = FALSE
    /\ stop_signalled = FALSE
    /\ tpc = [c \in Callers |-> "new"]
    /\ stop_calls = 0
    /\ completed = 0
    /\ noops = 0
    /\ late_noops = 0
    /\ closes = 0
    /\ loop_stops = 0
    /\ joins = 0

LifeStart ==
    /\ ctor = "new"
    /\ k_calls = 0
    /\ k_last = NoCall

LifeOff ==
    /\ ctor = "off"
    /\ k_calls = 0
    /\ k_last = NoCall

\* self._loop = asyncio.new_event_loop(); Thread(target=run_forever).start()
CtorStartsWorker ==
    /\ ctor = "new"
    /\ loop_running' = TRUE
    /\ thread_alive' = TRUE
    /\ ctor' = "worker"
    /\ UNCHANGED <<stopped, connected, stop_signalled, tpc, stop_calls, completed,
                   noops, late_noops, closes, loop_stops, joins, k_calls, k_last>>

\* __aenter__ completes in time; _stopped = False; atexit.register(self.stop);
\* the caller holds the Bridge and may call stop() and the tool callers
CtorConnects ==
    /\ ctor = "worker"
    /\ connected' = TRUE
    /\ stopped' = FALSE
    /\ tpc' = [c \in Callers |-> "idle"]
    /\ ctor' = "ok"
    /\ UNCHANGED <<loop_running, thread_alive, stop_signalled, stop_calls, completed,
                   noops, late_noops, closes, loop_stops, joins, k_calls, k_last>>

\* __aenter__ raises or result(timeout) times out: the exception leaves
\* __init__, and nothing after line 64 runs
CtorConnectFails ==
    /\ ctor = "worker"
    /\ ctor' = "failed"
    /\ UNCHANGED <<stopped, loop_running, thread_alive, connected, stop_signalled,
                   tpc, stop_calls, completed, noops, late_noops, closes, loop_stops,
                   joins, k_calls, k_last>>

\* _call is entered by a holder of the Bridge
CallMade(outcome) ==
    /\ ctor = "ok"
    /\ k_calls < MaxCalls
    /\ k_calls' = k_calls + 1
    /\ k_last' = outcome
    /\ UNCHANGED <<ctor, bridgeVars>>

\* the provider answers: res.data, the first text content, or None
CallReturns ==
    /\ loop_running /\ connected
    /\ \E v \in {"data", "text", "None"} : CallMade(Call("none", "returned", v))

\* except ToolError: the list text found in the message, else the message
CallToolError ==
    /\ loop_running /\ connected
    /\ \E v \in {"recovered", "error_text"} : CallMade(Call("tool_error", "returned", v))

\* the provider does not answer within self._timeout: result(timeout) raises
\* TimeoutError, which except ToolError does not catch
CallTimesOut ==
    /\ loop_running /\ connected
    /\ CallMade(Call("timeout", "raised", "none"))

\* the channel is closed: call_tool raises an error that is no ToolError
CallChannelClosed ==
    /\ loop_running /\ ~connected
    /\ CallMade(Call("closed", "raised", "none"))

\* the loop has stopped: the coroutine is queued and never run, and
\* result(timeout) raises TimeoutError
CallOnStoppedLoop ==
    /\ ~loop_running
    /\ CallMade(Call("stopped", "raised", "none"))

(***************************************************************************)
(* The result compressor: the helpers of app/chat.py, the compression step *)
(* of Client.send and AIAgent._compress_tool_result.  Texts have one line: *)
(* the alphabet holds no newline, no tab and no backquote.                 *)
(***************************************************************************)
\* str.lstrip()
lstrip(s) == SubSeq(s, SkipSpace(s, 0) + 1, Len(s))

RECURSIVE rstrip(_)
\* str.rstrip()
rstrip(s) ==
    IF s # <<>> /\ isspace(s[Len(s)]) THEN rstrip(SubSeq(s, 1, Len(s) - 1)) ELSE s

\* str.strip()
strip(s) == rstrip(lstrip(s))

RECURSIVE CollapseSpaces(_)
\* re.sub(r"[ \t]{2,}", " ", line)
CollapseSpaces(s) ==
    IF Len(s) < 2 THEN s
    ELSE IF isspace(s[1]) /\ isspace(s[2]) THEN CollapseSpaces(Tail(s))
         ELSE <<s[1]>> \o CollapseSpaces(Tail(s))

\* _squeeze_text on a text of one line, which after strip() starts with no
\* blank and holds no code fence
squeeze_text(s) == rstrip(CollapseSpaces(strip(s)))

\* _is_json_like
is_json_like(s) ==
    LET s2 == lstrip(s)
    IN s2 # <<>> /\ s2[1] \in {"{", "["}

\* json.loads(s): one value, blanks around it, nothing else
loads(s) ==
    LET r == raw_decode(s, SkipSpace(s, 0))
    IN IF r.ok /\ SkipSpace(s, r.end) >= Len(s) THEN r ELSE DecodeError

RECURSIVE Join(_, _)
\* sep.join(parts)
Join(parts, sep) ==
    IF parts = <<>> THEN <<>>
    ELSE IF Len(parts) = 1 THEN parts[1]
         ELSE parts[1] \o sep \o Join(Tail(parts), sep)

RECURSIVE dumps(_, _)
\* json.dumps(obj, separators=...): sep is what the item separator leaves
\* once the comma is elided, " " by default and nothing for (",", ":")
dumps(obj, sep) ==
    CASE obj.t = "num" -> obj.m
      [] obj.t = "dict" ->
           <<"{">> \o Join([k \in 1..Len(obj.m) |-> <<obj.m[k]>>], sep) \o <<"}">>
      [] obj.t = "list" ->
           <<"[">> \o Join([k \in 1..Len(obj.e) |-> dumps(obj.e[k], sep)], sep) \o <<"]">>
      [] OTHER -> <<"x">>

\* _minify_json_str
minify_json_str(s) ==
    LET r == loads(s)
    IN IF r.ok THEN dumps(r.obj, <<>>) ELSE s

RECURSIVE Escape(_)
\* the body of a JSON string literal: quotes and backslashes are escaped
Escape(s) ==
    IF s = <<>> THEN <<>>
    ELSE (IF s[1] \in {"\"", "\\"} THEN <<"\\", s[1]>> ELSE <<s[1]>>) \o Escape(Tail(s))

\* json.dumps(result, ensure_ascii=False, default=_json_default) in Client.send
dumps_result(type, s) ==
    IF type = "str" THEN <<"\"">> \o Escape(s) \o <<"\"">>
    ELSE dumps(loads(s).obj, <<" ">>)

\* the compression step of Client.send
SendCompress(type, s) ==
    LET content == dumps_result(type, s)
    IN IF is_json_like(content) THEN minify_json_str(content)
       ELSE squeeze_text(content)

\* the length str(result)[:500] cuts at
TruncateAt == 500

Cut(s) == IF Len(s) > TruncateAt THEN SubSeq(s, 1, TruncateAt) ELSE s

\* AIAgent._compress_tool_result: a str is squeezed; for a dict or a list
\* self._json_default does not exist and the bare except returns
\* str(result)[:500]; anything else is str(result), cut after 500 characters.
\* The texts here are shorter than 500, and the abstraction of a member does
\* not tell the quotes of repr() from those of JSON.
compress_tool_result(type, s) ==
    IF type = "str" THEN squeeze_text(s)
    ELSE Cut(dumps(loads(s).obj, <<" ">>))

Compress(who, type, s) ==
    IF who = "send" THEN SendCompress(type, s) ELSE compress_tool_result(type, s)

ResultTexts == UNION {[1..n -> Chars] : n \in 0..MaxResultLen}

CompressStart ==
    /\ c_who \in {"send", "agent"}
    /\ c_type \in {"str", "obj"}
    /\ c_in \in ResultTexts
    /\ c_type = "obj" => loads(c_in).ok
    /\ c_once = <<>>
    /\ c_twice = <<>>
    /\ cpc = "start"

CompressOff ==
    /\ c_who = "send"
    /\ c_type = "str"
    /\ c_in = <<>>
    /\ c_once = <<>>
    /\ c_twice = <<>>
    /\ cpc = "off"

\* the tool returned r: its content is compressed
CompressOnce ==
    /\ cpc = "start"
    /\ c_once' = Compress(c_who, c_type, c_in)
    /\ cpc' = "once"
    /\ UNCHANGED <<c_who, c_type, c_in, c_twice>>

\* the compressor's output, a str, is handed to the compressor again
CompressAgain ==
    /\ cpc = "once"
    /\ c_twice' = Compress(c_who, "str", c_once)
    /\ cpc' = "twice"
    /\ UNCHANGED <<c_who, c_type, c_in, c_once>>

(***************************************************************************)
(* One tool call of AIAgent through a Bridge: the provider answers, the     *)
(* caller made by MCPBridge.get_func (_call) turns the answer into a value  *)
(* or lets the failure out, and _handle_standard_tool_calls builds the      *)
(* entry of tool_results from what call_tool gave it.                       *)
(*                                                                         *)
(* A text is a sequence of characters.  A content segment either has a      *)
(* text attribute (possibly empty) or has none (an image).                  *)
(***************************************************************************)
MaxSegments == 2

Segment(has_text, txt) == [has_text |-> has_text, text |-> txt]

Segments ==
    {Segment(FALSE, <<>>), Segment(TRUE, <<>>), Segment(TRUE, <<"t">>),
     Segment(TRUE, <<"u">>)}

\* a CallToolResult: data is "None" when absent; content is a list, or None
\* (has_content false)
Envelope(data, has_content, content) ==
    [kind |-> "result", data |-> data, has_content |-> has_content,
     content |-> content]

\* data "E" is a value that is not None and is falsy (0, "", [])
Envelopes ==
    {Envelope(d, TRUE, c) : d \in {"None", "D", "E"},
                            c \in UNION {[1..n -> Segments] : n \in 0..MaxSegments}}
    \cup {Envelope(d, FALSE, <<>>) : d \in {"None", "D", "E"}}

\* a ToolError: its message, what re.search(r'(\[.*\])') and json.loads make
\* of it ("nomatch", "invalid" or "list"), and the decoded list, whose items
\* are strings or something else
Item(is_str, txt) == [is_str |-> is_str, text |-> txt]

ToolErr(found, arr) == [kind |-> "tool_error", msg |-> <<"!">>, found |-> found, arr |-> arr]

ToolErrors ==
    {ToolErr("nomatch", <<>>), ToolErr("invalid", <<>>), ToolErr("list", <<>>),
     ToolErr("list", <<Item(FALSE, <<>>)>>),
     ToolErr("list", <<Item(TRUE, <<"t">>)>>),
     ToolErr("list", <<Item(TRUE, <<"t">>), Item(FALSE, <<>>), Item(TRUE, <<"u">>)>>)}

\* anything else _run lets out: the timeout of result(), a closed channel
Failures == {[kind |-> "exception", what |-> w] : w \in {"timeout", "closed"}}

ProviderAnswers == Envelopes \cup ToolErrors \cup Failures

Val(kind, txt) == [kind |-> kind, text |-> txt]

Returned(v) == [ended |-> "returned", value |-> v]

Raised(what) == [ended |-> "raised", value |-> Val("exception", <<what>>)]

NotCalled == [ended |-> "none", value |-> Val("none", <<>>)]

RECURSIVE FirstText(_)
\* the loop of lines 192-194: the text of the first segment that has a text
\* attribute with a truthy (non-empty) text
FirstText(content) ==
    IF content = <<>> THEN Val("None", <<>>)
    ELSE IF Head(content).has_text /\ Head(content).text # <<>>
         THEN Val("text", Head(content).text)
         ELSE FirstText(Tail(content))

ReturnValue_DataTruthTest(res) ==
    IF res.data \notin {"None", "E"} THEN Val("data", <<res.data>>)
    ELSE FirstText(IF res.has_content THEN res.content ELSE <<>>)

\* the normal return path of _call
ReturnValue(res) ==
    IF res.data # "None" THEN Val("data", <<res.data>>)
    ELSE FirstText(IF res.has_content THEN res.content ELSE <<>>)

RECURSIVE JoinLines(_)
\* "\n".join(parts)
JoinLines(parts) ==
    IF parts = <<>> THEN <<>>
    ELSE IF Len(parts) = 1 THEN parts[1]
    ELSE parts[1] \o <<"\n">> \o JoinLines(Tail(parts))

\* the except ToolError branch of _call
Recover(e) ==
    IF e.found # "list" THEN Val("text", e.msg)
    ELSE LET text_parts == SelectSeq(e.arr, LAMBDA x : x.is_str)
         IN IF text_parts # <<>>
            THEN Val("text", JoinLines([k \in 1..Len(text_parts) |-> text_parts[k].text]))
            ELSE Val("text", e.msg)

\* _call as a whole
CallOutcome(answer) ==
    IF answer.kind = "result" THEN Returned(ReturnValue(answer))
    ELSE IF answer.kind = "tool_error" THEN Returned(Recover(answer))
    ELSE Raised(answer.what)

\* the entry of tool_results: call_tool hands the value through or re-raises,
\* and the handler tells success from failure by that alone
ExecutionResult(ret) ==
    IF ret.ended = "returned"
    THEN [success |-> TRUE, original_result |-> ret.value, error |-> <<>>]
    ELSE [success |-> FALSE, original_result |-> Val("None", <<>>),
          error |-> ret.value.text]

NoExecution == [success |-> FALSE, original_result |-> Val("none", <<>>), error |-> <<>>]

CallStart ==
    /\ p_resp \in ProviderAnswers
    /\ p_ret = NotCalled
    /\ p_exec = NoExecution
    /\ ppc = "call"

CallOff ==
    /\ p_resp = [kind |-> "exception", what |-> "closed"]
    /\ p_ret = NotCalled
    /\ p_exec = NoExecution
    /\ ppc = "off"

\* call_tool(tool_name, **tool_args) reaches _call, which asks the provider
BridgeCall ==
    /\ ppc = "call"
    /\ p_ret' = CallOutcome(p_resp)
    /\ ppc' = "handle"
    /\ UNCHANGED <<p_resp, p_exec>>

\* the try/except around call_tool in _handle_standard_tool_calls
HandlerRecords ==
    /\ ppc = "handle"
    /\ p_exec' = ExecutionResult(p_ret)
    /\ ppc' = "done"
    /\ UNCHANGED <<p_resp, p_ret>>

(***************************************************************************)
(* The event loop of one Bridge and the threads that call tools through    *)
(* it.  _run hands a coroutine to the loop (run_coroutine_threadsafe) and  *)
(* blocks in result(timeout).  The loop is one thread: it runs a coroutine *)
(* up to its next await, and client.call_tool awaits the provider's        *)
(* answer, so the loop starts the next submitted coroutine meanwhile.      *)
(* A caller whose result() times out leaves its coroutine on the loop.     *)
(***************************************************************************)
MaxTasks == 2

Task(caller, st) == [caller |-> caller, st |-> st]

TaskStart ==
    /\ tasks = <<>>
    /\ waiting = [c \in Callers |-> 0]
    /\ t_out = [c \in Callers |-> <<>>]

TaskOff ==
    /\ tasks = <<>>
    /\ waiting = [c \in Callers |-> -1]
    /\ t_out = [c \in Callers |-> <<>>]

\* _run: asyncio.run_coroutine_threadsafe(coro, self._loop)
Submit(c) ==
    /\ waiting[c] = 0
    /\ tpc[c] = "idle"
    /\ Len(tasks) < MaxTasks
    /\ tasks' = Append(tasks, Task(c, "queued"))
    /\ waiting' = [waiting EXCEPT ![c] = Len(tasks) + 1]
    /\ UNCHANGED <<t_out, bridgeVars>>

\* the loop takes the oldest scheduled coroutine and runs it to the await of
\* the provider's answer
LoopStarts(n) ==
    /\ loop_running
    /\ tasks[n].st = "queued"
    /\ \A j \in 1..(n - 1) : tasks[j].st # "queued"
    /\ tasks' = [tasks EXCEPT ![n].st = "running"]
    /\ UNCHANGED <<waiting, t_out, bridgeVars>>

\* the answer arrives and the coroutine ends: with a result if the client is
\* connected and the provider succeeds, with an exception otherwise
ProviderResponds(n) ==
    /\ loop_running
    /\ tasks[n].st = "running"
    /\ \E st \in {"result", "exception"} :
         /\ st = "result" => connected
         /\ tasks' = [tasks EXCEPT ![n].st = st]
    /\ UNCHANGED <<waiting, t_out, bridgeVars>>

\* result(timeout) returns the value or raises the coroutine's exception
CallerResumes(c) ==
    /\ waiting[c] > 0
    /\ tasks[waiting[c]].st \in {"result", "exception"}
    /\ t_out' = [t_out EXCEPT ![c] = Append(@, tasks[waiting[c]].st)]
    /\ waiting' = [waiting EXCEPT ![c] = 0]
    /\ UNCHANGED <<tasks, bridgeVars>>

CallerTimesOut_Stops(c) ==
    /\ waiting[c] > 0
    /\ tasks[waiting[c]].st \in {"queued", "running"}
    /\ t_out' = [t_out EXCEPT ![c] = Append(@, "timeout")]
    /\ waiting' = [waiting EXCEPT ![c] = 0]
    /\ stopped' = TRUE
    /\ UNCHANGED <<tasks, loop_running, thread_alive, connected, stop_signalled, tpc,
                   stop_calls, completed, noops, late_noops, closes, loop_stops, joins>>

\* result(timeout) raises TimeoutError: the future is not cancelled, and
\* nothing of the Bridge is touched
CallerTimesOut(c) ==
    /\ waiting[c] > 0
    /\ tasks[waiting[c]].st \in {"queued", "running"}
    /\ t_out' = [t_out EXCEPT ![c] = Append(@, "timeout")]
    /\ waiting' = [waiting EXCEPT ![c] = 0]
    /\ UNCHANGED <<tasks, bridgeVars>>

(***************************************************************************)
(* One call of AIAgent._trim_conversation_history on a conversation of any  *)
(* content: the system turn followed by turns that are short, long, or      *)
(* carry the tool-result summary.                                           *)
(***************************************************************************)
MaxHistory == 11

TrimContents == {"A", "BIG", "A+summary"}

Histories ==
    {<<Turn("system", "S", <<>>, 0)>> \o rest :
        rest \in UNION {[1..n -> {Turn("assistant", c, <<>>, 0) : c \in TrimContents}] :
                        n \in (MaxHistory - 2)..(MaxHistory - 1)}}

TrimStart ==
    /\ h_in \in Histories
    /\ h_out = <<>>
    /\ hpc = "call"

TrimOff ==
    /\ h_in = <<>>
    /\ h_out = <<>>
    /\ hpc = "off"

\* self._trim_conversation_history()
TrimCall ==
    /\ hpc = "call"
    /\ h_out' = Trim(h_in)
    /\ hpc' = "done"
    /\ UNCHANGED h_in

(***************************************************************************)
(* SuperSecretary (app/super_secretary.py): start() and stop() called by   *)
(* the threads of Callers, and the polling threads start() creates.  Each  *)
(* action is one read or write of the object's fields, which is the grain  *)
(* at which threads interleave.                                            *)
(***************************************************************************)
MaxStarts == 3

Workers == 1..MaxStarts

\* the places of a thread that is executing _polling_worker
Alive == {"test", "check", "sleep"}

SecStart ==
    /\ running = FALSE
    /\ polling_thread = 0
    /\ ai_agent = 0
    /\ worker = [w \in Workers |-> "none"]
    /\ starts = 0
    /\ kpc = [c \in Callers |-> "idle"]

SecOff ==
    /\ running = FALSE
    /\ polling_thread = 0
    /\ ai_agent = 0
    /\ worker = [w \in Workers |-> "none"]
    /\ starts = 0
    /\ kpc = [c \in Callers |-> "off"]

\* start() is called: if self.running, stop() comes first
StartEnter(c) ==
    /\ kpc[c] = "idle"
    /\ starts < MaxStarts
    /\ starts' = starts + 1
    /\ kpc' = [kpc EXCEPT ![c] = IF running THEN "start_stop" ELSE "start_agent"]
    /\ UNCHANGED <<running, polling_thread, ai_agent, worker>>

\* stop(), called by the thread or from start(): self.running = False
StopClearsRunning(c) ==
    /\ kpc[c] \in {"idle", "start_stop"}
    /\ running' = FALSE
    /\ kpc' = [kpc EXCEPT ![c] = IF kpc[c] = "idle" THEN "join" ELSE "start_join"]
    /\ UNCHANGED <<polling_thread, ai_agent, worker, starts>>

\* stop(): there is no thread or it is not alive, or join() returns because
\* the thread has ended
JoinReturns(c) ==
    /\ kpc[c] \in {"join", "start_join"}
    /\ IF polling_thread = 0 THEN TRUE ELSE worker[polling_thread] \notin Alive
    /\ kpc' = [kpc EXCEPT ![c] = IF kpc[c] = "join" THEN "idle" ELSE "start_agent"]
    /\ UNCHANGED <<running, polling_thread, ai_agent, worker, starts>>

\* stop(): join(timeout=5) gives up while the thread is alive.  The thread
\* outlives five seconds when it is inside _check_boss_messages, or when
\* self.running was set again before it looked.
JoinTimesOut(c) ==
    /\ kpc[c] \in {"join", "start_join"}
    /\ polling_thread # 0
    /\ worker[polling_thread] \in Alive
    /\ IF running THEN TRUE ELSE worker[polling_thread] = "check"
    /\ kpc' = [kpc EXCEPT ![c] = IF kpc[c] = "join" THEN "idle" ELSE "start_agent"]
    /\ UNCHANGED <<running, polling_thread, ai_agent, worker, starts>>

\* start(): self.ai_agent = AIAgent()
StartAgentOk(c) ==
    /\ kpc[c] = "start_agent"
    /\ ai_agent' = ai_agent + 1
    /\ kpc' = [kpc EXCEPT ![c] = "start_run"]
    /\ UNCHANGED <<running, polling_thread, worker, starts>>

\* start(): AIAgent() raises; the except clause clears self.running
StartAgentFails(c) ==
    /\ kpc[c] = "start_agent"
    /\ running' = FALSE
    /\ kpc' = [kpc EXCEPT ![c] = "idle"]
    /\ UNCHANGED <<polling_thread, ai_agent, worker, starts>>

\* start(): self.running = True
StartSetsRunning(c) ==
    /\ kpc[c] = "start_run"
    /\ running' = TRUE
    /\ kpc' = [kpc EXCEPT ![c] = "start_spawn"]
    /\ UNCHANGED <<polling_thread, ai_agent, worker, starts>>

\* start(): self.polling_thread = threading.Thread(...); .start()
StartSpawns(c) ==
    /\ kpc[c] = "start_spawn"
    /\ \E w \in Workers :
          /\ worker[w] = "none"
          /\ \A v \in Workers : v < w => worker[v] # "none"
          /\ worker' = [worker EXCEPT ![w] = "test"]
          /\ polling_thread' = w
    /\ kpc' = [kpc EXCEPT ![c] = "idle"]
    /\ UNCHANGED <<running, ai_agent, starts>>

\* _polling_worker: while self.running
WorkerTest(w) ==
    /\ worker[w] = "test"
    /\ worker' = [worker EXCEPT ![w] = IF running THEN "check" ELSE "exited"]
    /\ UNCHANGED <<running, polling_thread, ai_agent, starts, kpc>>

\* _polling_worker: self._check_boss_messages() returns (it raises nothing)
WorkerChecked(w) ==
    /\ worker[w] = "check"
    /\ worker' = [worker EXCEPT ![w] = "sleep"]
    /\ UNCHANGED <<running, polling_thread, ai_agent, starts, kpc>>

\* _polling_worker: the waiting loop ends, after polling_interval seconds or
\* at the break when self.running is false
WorkerWakes(w) ==
    /\ worker[w] = "sleep"
    /\ worker' = [worker EXCEPT ![w] = "test"]
    /\ UNCHANGED <<running, polling_thread, ai_agent, starts, kpc>>

(***************************************************************************)
(* process_once (app/email_gateway.py): the retry loop around one IMAP     *)
(* session.  A message of INBOX is its sender and the command _parse_cmd   *)
(* reads in its subject; the server, add_diary, gen_weekly and _send_mail  *)
(* succeed or fail as they please.                                         *)
(***************************************************************************)
MaxRetries == 2
MaxMails == 1

MailIds == 1..MaxMails

Senders == {"boss", "stranger"}

\* the first component of what _parse_cmd returns
Cmds == {"diary", "weekly", "email_content", ""}

NotReturned == [kind |-> "pending", items |-> <<>>]

ReturnedNone == [kind |-> "None", items |-> <<>>]

ReturnedList(l) == [kind |-> "list", items |-> l]

NoCallsYet == [n \in MailIds |-> 0]

RECURSIVE IdsInOrder(_)
\* the message numbers of S, in the order SEARCH lists them
IdsInOrder(S) ==
    IF S = {} THEN <<>>
    ELSE LET n == CHOOSE x \in S : \A y \in S : x <= y
         IN <<n>> \o IdsInOrder(S \ {n})

MailStart ==
    /\ max_retries \in 0..MaxRetries
    /\ ALLOWED \in {{}, {"boss"}}
    /\ inbox \in [MailIds -> [from : Senders, cmd : Cmds]]
    /\ unseen = MailIds
    /\ implicit_seen \in BOOLEAN
    /\ retry = 0
    /\ imap_attempts = 0
    /\ filtered_ids = <<>>
    /\ m_k = 0
    /\ add_diary_calls = NoCallsYet
    /\ gen_weekly_calls = NoCallsYet
    /\ send_mail_calls = NoCallsYet
    /\ processed_emails = <<>>
    /\ m_ret = NotReturned
    /\ mpc = "while"

MailOff ==
    /\ max_retries = 0
    /\ ALLOWED = {}
    /\ inbox = [n \in MailIds |-> [from |-> "boss", cmd |-> ""]]
    /\ unseen = {}
    /\ implicit_seen = FALSE
    /\ retry = 0
    /\ imap_attempts = 0
    /\ filtered_ids = <<>>
    /\ m_k = 0
    /\ add_diary_calls = NoCallsYet
    /\ gen_weekly_calls = NoCallsYet
    /\ send_mail_calls = NoCallsYet
    /\ processed_emails = <<>>
    /\ m_ret = NotReturned
    /\ mpc = "off"

\* a gateway without the whitelist test
Allowed_Everyone(addr) == addr \in Senders

\* not (ALLOWED and from_addr not in ALLOWED)
Allowed(addr) == ALLOWED = {} \/ addr \in ALLOWED

\* the flags after M.fetch(num, "(RFC822)") answered OK: a server that
\* follows the protocol to the letter sets \Seen itself, others (and a
\* mailbox opened read-only) leave it to the STORE that follows
Fetched(num) == IF implicit_seen THEN unseen \ {num} ELSE unseen

\* try: M.store(num, "+FLAGS", "\\Seen") / except Exception: pass
Stored(num, stored) == IF stored THEN unseen \ {num} ELSE Fetched(num)

\* except Exception as e: retry += 1; sleep and go round, or return []
AttemptFails ==
    /\ retry' = retry + 1
    /\ filtered_ids' = <<>>
    /\ m_k' = 0
    /\ processed_emails' = <<>>
    /\ IF retry + 1 < max_retries
       THEN /\ mpc' = "while"
            /\ m_ret' = m_ret
       ELSE /\ mpc' = "returned"
            /\ m_ret' = ReturnedList(<<>>)

\* while retry < max_retries; when the test fails the function ends
\* without a return statement
WhileTest ==
    /\ mpc = "while"
    /\ IF retry < max_retries
       THEN /\ mpc' = "connect"
            /\ m_ret' = m_ret
       ELSE /\ mpc' = "returned"
            /\ m_ret' = ReturnedNone
    /\ UNCHANGED <<max_retries, ALLOWED, inbox, unseen, implicit_seen, retry, imap_attempts,
                   filtered_ids, m_k, add_diary_calls, gen_weekly_calls, send_mail_calls,
                   processed_emails>>

\* IMAP4_SSL, login, select or the UNSEEN search raises
ConnectFails ==
    /\ mpc = "connect"
    /\ imap_attempts' = imap_attempts + 1
    /\ AttemptFails
    /\ UNCHANGED <<max_retries, ALLOWED, inbox, unseen, implicit_seen,
                   add_diary_calls, gen_weekly_calls, send_mail_calls>>

\* the session opens and the search answers; filtered_ids are the unread
\* messages whose header could be fetched
ConnectOk ==
    /\ mpc = "connect"
    /\ imap_attempts' = imap_attempts + 1
    /\ \E S \in SUBSET unseen : filtered_ids' = IdsInOrder(S)
    /\ m_k' = 1
    /\ mpc' = "handle"
    /\ UNCHANGED <<max_retries, ALLOWED, inbox, unseen, implicit_seen, retry,
                   add_diary_calls, gen_weekly_calls, send_mail_calls,
                   processed_emails, m_ret>>

\* the message the handling loop is at
AtMessage == mpc = "handle" /\ m_k <= Len(filtered_ids)

CurrentNum == filtered_ids[m_k]

\* for num in filtered_ids: the loop is through
HandleLoopEnds ==
    /\ mpc = "handle"
    /\ m_k > Len(filtered_ids)
    /\ mpc' = "collect"
    /\ UNCHANGED <<max_retries, ALLOWED, inbox, unseen, implicit_seen, retry, imap_attempts,
                   filtered_ids, m_k, add_diary_calls, gen_weekly_calls, send_mail_calls,
                   processed_emails, m_ret>>

\* M.fetch(num, "(RFC822)") answers something else than OK: continue
FetchNotOk ==
    /\ AtMessage
    /\ m_k' = m_k + 1
    /\ UNCHANGED <<max_retries, ALLOWED, inbox, unseen, implicit_seen, retry, imap_attempts,
                   filtered_ids, add_diary_calls, gen_weekly_calls, send_mail_calls,
                   processed_emails, m_ret, mpc>>

\* M.fetch(num, "(RFC822)") raises: the attempt ends in the outer except
FetchRaises ==
    /\ AtMessage
    /\ AttemptFails
    /\ UNCHANGED <<max_retries, ALLOWED, inbox, unseen, implicit_seen, imap_attempts,
                   add_diary_calls, gen_weekly_calls, send_mail_calls>>

\* the sender is not on the whitelist: mark the message seen and continue
SkipNotAllowed ==
    /\ AtMessage
    /\ ~Allowed(inbox[CurrentNum].from)
    /\ \E stored \in BOOLEAN : unseen' = Stored(CurrentNum, stored)
    /\ m_k' = m_k + 1
    /\ UNCHANGED <<max_retries, ALLOWED, inbox, implicit_seen, retry, imap_attempts,
                   filtered_ids, add_diary_calls, gen_weekly_calls, send_mail_calls,
                   processed_emails, m_ret, mpc>>

\* the try block of a command and its except clause: the command runs
\* (cmd_ok) and the confirmation is sent (send_ok), or the failure notice
\* is sent instead (notice_ok); a notice that cannot be sent ends the
\* attempt in the outer except, before the message is marked seen
RunCommand(cmd_ok, send_ok, notice_ok, stored) ==
    LET mails == (IF cmd_ok THEN 1 ELSE 0) + (IF cmd_ok /\ send_ok THEN 0 ELSE 1)
    IN  /\ send_mail_calls' = [send_mail_calls EXCEPT ![CurrentNum] = @ + mails]
        /\ IF (cmd_ok /\ send_ok) \/ notice_ok
           THEN /\ unseen' = Stored(CurrentNum, stored)
                /\ m_k' = m_k + 1
                /\ UNCHANGED <<retry, filtered_ids, processed_emails, m_ret, mpc>>
           ELSE /\ unseen' = Fetched(CurrentNum)
                /\ AttemptFails

\* cmd == "diary": add_diary, then the confirmation
HandleDiary ==
    /\ AtMessage
    /\ Allowed(inbox[CurrentNum].from)
    /\ inbox[CurrentNum].cmd = "diary"
    /\ add_diary_calls' = [add_diary_calls EXCEPT ![CurrentNum] = @ + 1]
    /\ \E cmd_ok, send_ok, notice_ok, stored \in BOOLEAN :
          RunCommand(cmd_ok, send_ok, notice_ok, stored)
    /\ UNCHANGED <<max_retries, ALLOWED, inbox, implicit_seen, imap_attempts,
                   gen_weekly_calls>>

\* cmd == "weekly": gen_weekly, then the report is sent
HandleWeekly ==
    /\ AtMessage
    /\ Allowed(inbox[CurrentNum].from)
    /\ inbox[CurrentNum].cmd = "weekly"
    /\ gen_weekly_calls' = [gen_weekly_calls EXCEPT ![CurrentNum] = @ + 1]
    /\ \E cmd_ok, send_ok, notice_ok, stored \in BOOLEAN :
          RunCommand(cmd_ok, send_ok, notice_ok, stored)
    /\ UNCHANGED <<max_retries, ALLOWED, inbox, implicit_seen, imap_attempts,
                   add_diary_calls>>

\* cmd == "email_content" or no command: nothing runs, the message is
\* marked seen
HandleNoCommand ==
    /\ AtMessage
    /\ Allowed(inbox[CurrentNum].from)
    /\ inbox[CurrentNum].cmd \in {"email_content", ""}
    /\ \E stored \in BOOLEAN : unseen' = Stored(CurrentNum, stored)
    /\ m_k' = m_k + 1
    /\ UNCHANGED <<max_retries, ALLOWED, inbox, implicit_seen, retry, imap_attempts,
                   filtered_ids, add_diary_calls, gen_weekly_calls, send_mail_calls,
                   processed_emails, m_ret, mpc>>

\* the second loop over filtered_ids: the messages that are fetched again
\* (F) and whose sender is on the whitelist go into processed_emails
Collect ==
    /\ mpc = "collect"
    /\ \E F \in SUBSET {filtered_ids[k] : k \in 1..Len(filtered_ids)} :
          /\ processed_emails' = IdsInOrder({n \in F : Allowed(inbox[n].from)})
          /\ unseen' = IF implicit_seen THEN unseen \ F ELSE unseen
    /\ mpc' = "logout"
    /\ UNCHANGED <<max_retries, ALLOWED, inbox, implicit_seen, retry, imap_attempts,
                   filtered_ids, m_k, add_diary_calls, gen_weekly_calls, send_mail_calls,
                   m_ret>>

\* M.logout() answers: return processed_emails
LogoutOk ==
    /\ mpc = "logout"
    /\ m_ret' = ReturnedList(processed_emails)
    /\ mpc' = "returned"
    /\ UNCHANGED <<max_retries, ALLOWED, inbox, unseen, implicit_seen, retry, imap_attempts,
                   filtered_ids, m_k, add_diary_calls, gen_weekly_calls, send_mail_calls,
                   processed_emails>>

\* M.logout() raises: the attempt ends in the outer except
LogoutRaises ==
    /\ mpc = "logout"
    /\ AttemptFails
    /\ UNCHANGED <<max_retries, ALLOWED, inbox, unseen, implicit_seen, imap_attempts,
                   add_diary_calls, gen_weekly_calls, send_mail_calls>>

(***************************************************************************)
(* Specifications: one per component, the other components switched off.   *)
(***************************************************************************)
JsonInit ==
    /\ JsonStart /\ BatchOff /\ SendOff /\ AgentOff /\ RegistryOff /\ BridgeOff /\ SecOff /\ MailOff
    /\ CompressOff /\ LifeOff /\ CallOff /\ TaskOff /\ TrimOff

JsonNext ==
    \/ ScanEnd /\ UNCHANGED <<batchVars, sendVars, agentVars, registryVars, bridgeVars, compressVars, lifeVars, callVars, taskVars, trimVars, secVars, mailVars>>
    \/ ScanBlank /\ UNCHANGED <<batchVars, sendVars, agentVars, registryVars, bridgeVars, compressVars, lifeVars, callVars, taskVars, trimVars, secVars, mailVars>>
    \/ ScanDecoded /\ UNCHANGED <<batchVars, sendVars, agentVars, registryVars, bridgeVars, compressVars, lifeVars, callVars, taskVars, trimVars, secVars, mailVars>>
    \/ ScanSkip /\ UNCHANGED <<batchVars, sendVars, agentVars, registryVars, bridgeVars, compressVars, lifeVars, callVars, taskVars, trimVars, secVars, mailVars>>
    \/ ScanGiveUp /\ UNCHANGED <<batchVars, sendVars, agentVars, registryVars, bridgeVars, compressVars, lifeVars, callVars, taskVars, trimVars, secVars, mailVars>>

SpecJson == JsonInit /\ [][JsonNext]_vars

\* the scan is a loop of one thread: it takes its next step
SpecJsonFair == JsonInit /\ [][JsonNext]_vars /\ WF_vars(JsonNext)

BatchInit ==
    /\ BatchStart /\ JsonOff /\ SendOff /\ AgentOff /\ RegistryOff /\ BridgeOff /\ SecOff /\ MailOff
    /\ CompressOff /\ LifeOff /\ CallOff /\ TaskOff /\ TrimOff

BatchNext ==
    \/ BatchUnknownTool /\ UNCHANGED <<jsonVars, sendVars, agentVars, registryVars, bridgeVars, compressVars, lifeVars, callVars, taskVars, trimVars, secVars, mailVars>>
    \/ BatchLookup /\ UNCHANGED <<jsonVars, sendVars, agentVars, registryVars, bridgeVars, compressVars, lifeVars, callVars, taskVars, trimVars, secVars, mailVars>>
    \/ BatchEntryNotDict /\ UNCHANGED <<jsonVars, sendVars, agentVars, registryVars, bridgeVars, compressVars, lifeVars, callVars, taskVars, trimVars, secVars, mailVars>>
    \/ BatchEntryOk /\ UNCHANGED <<jsonVars, sendVars, agentVars, registryVars, bridgeVars, compressVars, lifeVars, callVars, taskVars, trimVars, secVars, mailVars>>
    \/ BatchEntryRaise /\ UNCHANGED <<jsonVars, sendVars, agentVars, registryVars, bridgeVars, compressVars, lifeVars, callVars, taskVars, trimVars, secVars, mailVars>>
    \/ BatchReturn /\ UNCHANGED <<jsonVars, sendVars, agentVars, registryVars, bridgeVars, compressVars, lifeVars, callVars, taskVars, trimVars, secVars, mailVars>>

SpecBatch == BatchInit /\ [][BatchNext]_vars

SendInit ==
    /\ SendStart /\ JsonOff /\ BatchOff /\ AgentOff /\ RegistryOff /\ BridgeOff /\ SecOff /\ MailOff
    /\ CompressOff /\ LifeOff /\ CallOff /\ TaskOff /\ TrimOff

SendNext ==
    \/ RestMessage /\ UNCHANGED <<jsonVars, batchVars, agentVars, registryVars, bridgeVars, compressVars, lifeVars, callVars, taskVars, trimVars, secVars, mailVars>>
    \/ SendBegin /\ UNCHANGED <<jsonVars, batchVars, agentVars, registryVars, bridgeVars, compressVars, lifeVars, callVars, taskVars, trimVars, secVars, mailVars>>
    \/ ModelRaises /\ UNCHANGED <<jsonVars, batchVars, agentVars, registryVars, bridgeVars, compressVars, lifeVars, callVars, taskVars, trimVars, secVars, mailVars>>
    \/ ModelStops /\ UNCHANGED <<jsonVars, batchVars, agentVars, registryVars, bridgeVars, compressVars, lifeVars, callVars, taskVars, trimVars, secVars, mailVars>>
    \/ ModelRequestsTools /\ UNCHANGED <<jsonVars, batchVars, agentVars, registryVars, bridgeVars, compressVars, lifeVars, callVars, taskVars, trimVars, secVars, mailVars>>
    \/ ModelGoesOn /\ UNCHANGED <<jsonVars, batchVars, agentVars, registryVars, bridgeVars, compressVars, lifeVars, callVars, taskVars, trimVars, secVars, mailVars>>
    \/ ToolReturns /\ UNCHANGED <<jsonVars, batchVars, agentVars, registryVars, bridgeVars, compressVars, lifeVars, callVars, taskVars, trimVars, secVars, mailVars>>
    \/ ToolRaises /\ UNCHANGED <<jsonVars, batchVars, agentVars, registryVars, bridgeVars, compressVars, lifeVars, callVars, taskVars, trimVars, secVars, mailVars>>
    \/ ToolResultUnserializable /\ UNCHANGED <<jsonVars, batchVars, agentVars, registryVars, bridgeVars, compressVars, lifeVars, callVars, taskVars, trimVars, secVars, mailVars>>
    \/ SendExhausted /\ UNCHANGED <<jsonVars, batchVars, agentVars, registryVars, bridgeVars, compressVars, lifeVars, callVars, taskVars, trimVars, secVars, mailVars>>

SpecSend == SendInit /\ [][SendNext]_vars

AgentInit ==
    /\ AgentStart /\ JsonOff /\ BatchOff /\ SendOff /\ RegistryOff /\ BridgeOff /\ SecOff /\ MailOff
    /\ CompressOff /\ LifeOff /\ CallOff /\ TaskOff /\ TrimOff

AgentNext ==
    \/ ProcessBegin /\ UNCHANGED <<jsonVars, batchVars, sendVars, registryVars, bridgeVars, compressVars, lifeVars, callVars, taskVars, trimVars, secVars, mailVars>>
    \/ AgentModelFails /\ UNCHANGED <<jsonVars, batchVars, sendVars, registryVars, bridgeVars, compressVars, lifeVars, callVars, taskVars, trimVars, secVars, mailVars>>
    \/ AgentModelAnswers /\ UNCHANGED <<jsonVars, batchVars, sendVars, registryVars, bridgeVars, compressVars, lifeVars, callVars, taskVars, trimVars, secVars, mailVars>>
    \/ AgentModelRequestsTools /\ UNCHANGED <<jsonVars, batchVars, sendVars, registryVars, bridgeVars, compressVars, lifeVars, callVars, taskVars, trimVars, secVars, mailVars>>
    \/ AgentArgsUndecodable /\ UNCHANGED <<jsonVars, batchVars, sendVars, registryVars, bridgeVars, compressVars, lifeVars, callVars, taskVars, trimVars, secVars, mailVars>>
    \/ AgentToolReturns /\ UNCHANGED <<jsonVars, batchVars, sendVars, registryVars, bridgeVars, compressVars, lifeVars, callVars, taskVars, trimVars, secVars, mailVars>>
    \/ AgentToolRaises /\ UNCHANGED <<jsonVars, batchVars, sendVars, registryVars, bridgeVars, compressVars, lifeVars, callVars, taskVars, trimVars, secVars, mailVars>>
    \/ AgentFollowupFails /\ UNCHANGED <<jsonVars, batchVars, sendVars, registryVars, bridgeVars, compressVars, lifeVars, callVars, taskVars, trimVars, secVars, mailVars>>
    \/ AgentFollowupAnswers /\ UNCHANGED <<jsonVars, batchVars, sendVars, registryVars, bridgeVars, compressVars, lifeVars, callVars, taskVars, trimVars, secVars, mailVars>>
    \/ AgentExhausted /\ UNCHANGED <<jsonVars, batchVars, sendVars, registryVars, bridgeVars, compressVars, lifeVars, callVars, taskVars, trimVars, secVars, mailVars>>
    \/ ResetConversation /\ UNCHANGED <<jsonVars, batchVars, sendVars, registryVars, bridgeVars, compressVars, lifeVars, callVars, taskVars, trimVars, secVars, mailVars>>

SpecAgent == AgentInit /\ [][AgentNext]_vars

RegistryInit ==
    /\ RegistryStart /\ JsonOff /\ BatchOff /\ SendOff /\ AgentOff /\ BridgeOff /\ SecOff /\ MailOff
    /\ CompressOff /\ LifeOff /\ CallOff /\ TaskOff /\ TrimOff

RegistryNext ==
    \/ SkipDisabled /\ UNCHANGED <<jsonVars, batchVars, sendVars, agentVars, bridgeVars, compressVars, lifeVars, callVars, taskVars, trimVars, secVars, mailVars>>
    \/ BridgeFailsToStart /\ UNCHANGED <<jsonVars, batchVars, sendVars, agentVars, bridgeVars, compressVars, lifeVars, callVars, taskVars, trimVars, secVars, mailVars>>
    \/ DiscoveryFails /\ UNCHANGED <<jsonVars, batchVars, sendVars, agentVars, bridgeVars, compressVars, lifeVars, callVars, taskVars, trimVars, secVars, mailVars>>
    \/ FuncMapFails /\ UNCHANGED <<jsonVars, batchVars, sendVars, agentVars, bridgeVars, compressVars, lifeVars, callVars, taskVars, trimVars, secVars, mailVars>>
    \/ ProviderReady /\ UNCHANGED <<jsonVars, batchVars, sendVars, agentVars, bridgeVars, compressVars, lifeVars, callVars, taskVars, trimVars, secVars, mailVars>>
    \/ RegistryFinish /\ UNCHANGED <<jsonVars, batchVars, sendVars, agentVars, bridgeVars, compressVars, lifeVars, callVars, taskVars, trimVars, secVars, mailVars>>

SpecRegistry == RegistryInit /\ [][RegistryNext]_vars

BridgeInit ==
    /\ BridgeStart /\ JsonOff /\ BatchOff /\ SendOff /\ AgentOff /\ RegistryOff /\ SecOff /\ MailOff
    /\ CompressOff /\ LifeOff /\ CallOff /\ TaskOff /\ TrimOff

BridgeOthers ==
    UNCHANGED <<jsonVars, batchVars, sendVars, agentVars, registryVars, compressVars, lifeVars, callVars, taskVars, trimVars, secVars, mailVars>>

BridgeNext ==
    \/ \E c \in Callers : StopEnter(c) /\ BridgeOthers
    \/ \E c \in Callers : StopMark(c) /\ BridgeOthers
    \/ \E c \in Callers : StopCloses(c) /\ BridgeOthers
    \/ \E c \in Callers : StopCloseFails(c) /\ BridgeOthers
    \/ \E c \in Callers : StopCloseSkipped(c) /\ BridgeOthers
    \/ \E c \in Callers : StopSignals(c) /\ BridgeOthers
    \/ \E c \in Callers : StopJoins(c) /\ BridgeOthers
    \/ WorkerExits /\ BridgeOthers

SpecBridge == BridgeInit /\ [][BridgeNext]_vars

\* a thread inside stop() takes its next step: every wait of stop() is bounded
\* (result(timeout=1.0), join(timeout=1.0)) and every failure is swallowed
StopStep(c) ==
    (StopMark(c) \/ StopCloses(c) \/ StopCloseFails(c) \/ StopCloseSkipped(c)
       \/ StopSignals(c) \/ StopJoins(c)) /\ BridgeOthers

\* the threads are scheduled; the worker is not obliged to end
SpecBridgeFair ==
    BridgeInit /\ [][BridgeNext]_vars /\ \A c \in Callers : WF_vars(StopStep(c))

LifeInit ==
    /\ LifeStart /\ BridgeNew /\ JsonOff /\ BatchOff /\ SendOff /\ AgentOff /\ SecOff /\ MailOff
    /\ RegistryOff /\ CompressOff /\ CallOff /\ TaskOff /\ TrimOff

LifeOthers ==
    UNCHANGED <<jsonVars, batchVars, sendVars, agentVars, registryVars, compressVars, callVars, taskVars, trimVars, secVars, mailVars>>

LifeNext ==
    \/ CtorStartsWorker /\ LifeOthers
    \/ CtorConnects /\ LifeOthers
    \/ CtorConnectFails /\ LifeOthers
    \/ CallReturns /\ LifeOthers
    \/ CallToolError /\ LifeOthers
    \/ CallTimesOut /\ LifeOthers
    \/ CallChannelClosed /\ LifeOthers
    \/ CallOnStoppedLoop /\ LifeOthers
    \/ \E c \in Callers : StopEnter(c) /\ UNCHANGED lifeVars /\ LifeOthers
    \/ \E c \in Callers : StopMark(c) /\ UNCHANGED lifeVars /\ LifeOthers
    \/ \E c \in Callers : StopCloses(c) /\ UNCHANGED lifeVars /\ LifeOthers
    \/ \E c \in Callers : StopCloseFails(c) /\ UNCHANGED lifeVars /\ LifeOthers
    \/ \E c \in Callers : StopCloseSkipped(c) /\ UNCHANGED lifeVars /\ LifeOthers
    \/ \E c \in Callers : StopSignals(c) /\ UNCHANGED lifeVars /\ LifeOthers
    \/ \E c \in Callers : StopJoins(c) /\ UNCHANGED lifeVars /\ LifeOthers
    \/ WorkerExits /\ UNCHANGED lifeVars /\ LifeOthers

SpecLife == LifeInit /\ [][LifeNext]_vars

CompressInit ==
    /\ CompressStart /\ JsonOff /\ BatchOff /\ SendOff /\ AgentOff /\ RegistryOff /\ SecOff /\ MailOff
    /\ BridgeOff /\ LifeOff /\ CallOff /\ TaskOff /\ TrimOff

CompressNext ==
    \/ CompressOnce /\ UNCHANGED <<jsonVars, batchVars, sendVars, agentVars, registryVars, bridgeVars, lifeVars, callVars, taskVars, trimVars, secVars, mailVars>>
    \/ CompressAgain /\ UNCHANGED <<jsonVars, batchVars, sendVars, agentVars, registryVars, bridgeVars, lifeVars, callVars, taskVars, trimVars, secVars, mailVars>>

SpecCompress == CompressInit /\ [][CompressNext]_vars


CallInit ==
    /\ CallStart /\ JsonOff /\ BatchOff /\ SendOff /\ AgentOff /\ RegistryOff /\ SecOff /\ MailOff
    /\ BridgeOff /\ CompressOff /\ LifeOff /\ TaskOff /\ TrimOff

CallNext ==
    \/ BridgeCall /\ UNCHANGED <<jsonVars, batchVars, sendVars, agentVars, registryVars, bridgeVars, compressVars, lifeVars, taskVars, trimVars, secVars, mailVars>>
    \/ HandlerRecords /\ UNCHANGED <<jsonVars, batchVars, sendVars, agentVars, registryVars, bridgeVars, compressVars, lifeVars, taskVars, trimVars, secVars, mailVars>>

SpecCall == CallInit /\ [][CallNext]_vars

TaskInit ==
    /\ TaskStart /\ BridgeStart /\ JsonOff /\ BatchOff /\ SendOff /\ AgentOff /\ SecOff /\ MailOff
    /\ RegistryOff /\ CompressOff /\ LifeOff /\ CallOff /\ TrimOff

TaskOthers ==
    UNCHANGED <<jsonVars, batchVars, sendVars, agentVars, registryVars, compressVars, lifeVars, callVars, trimVars, secVars, mailVars>>

\* a thread is in one call at a time: it enters stop() only when it is not
\* blocked in _run
TaskNext ==
    \/ \E c \in Callers : Submit(c) /\ TaskOthers
    \/ \E n \in 1..Len(tasks) : LoopStarts(n) /\ TaskOthers
    \/ \E n \in 1..Len(tasks) : ProviderResponds(n) /\ TaskOthers
    \/ \E c \in Callers : CallerResumes(c) /\ TaskOthers
    \/ \E c \in Callers : CallerTimesOut(c) /\ TaskOthers
    \/ \E c \in Callers : waiting[c] = 0 /\ StopEnter(c) /\ UNCHANGED taskVars /\ TaskOthers
    \/ \E c \in Callers : StopMark(c) /\ UNCHANGED taskVars /\ TaskOthers
    \/ \E c \in Callers : StopCloses(c) /\ UNCHANGED taskVars /\ TaskOthers
    \/ \E c \in Callers : StopCloseFails(c) /\ UNCHANGED taskVars /\ TaskOthers
    \/ \E c \in Callers : StopCloseSkipped(c) /\ UNCHANGED taskVars /\ TaskOthers
    \/ \E c \in Callers : StopSignals(c) /\ UNCHANGED taskVars /\ TaskOthers
    \/ \E c \in Callers : StopJoins(c) /\ UNCHANGED taskVars /\ TaskOthers
    \/ WorkerExits /\ UNCHANGED taskVars /\ TaskOthers

SpecTasks == TaskInit /\ [][TaskNext]_vars

TrimInit ==
    /\ TrimStart /\ JsonOff /\ BatchOff /\ SendOff /\ AgentOff /\ RegistryOff /\ SecOff /\ MailOff
    /\ BridgeOff /\ CompressOff /\ LifeOff /\ CallOff /\ TaskOff

TrimNext ==
    \/ TrimCall /\ UNCHANGED <<jsonVars, batchVars, sendVars, agentVars, registryVars, bridgeVars, compressVars, lifeVars, callVars, taskVars, secVars, mailVars>>

SpecTrim == TrimInit /\ [][TrimNext]_vars

(***************************************************************************)
(* The two round controllers side by side: a behaviour is one of           *)
(* Client.send or one of AIAgent.process_message.                          *)
(***************************************************************************)
RoundsInit ==
    /\ JsonOff /\ BatchOff /\ RegistryOff /\ BridgeOff /\ CompressOff /\ LifeOff /\ CallOff /\ TaskOff /\ TrimOff /\ SecOff /\ MailOff
    /\ \/ SendStart /\ AgentOff
       \/ SendOff /\ AgentStart

RoundsNext ==
    \/ RestMessage /\ UNCHANGED <<jsonVars, batchVars, agentVars, registryVars, bridgeVars, compressVars, lifeVars, callVars, taskVars, trimVars, secVars, mailVars>>
    \/ SendBegin /\ UNCHANGED <<jsonVars, batchVars, agentVars, registryVars, bridgeVars, compressVars, lifeVars, callVars, taskVars, trimVars, secVars, mailVars>>
    \/ ModelRaises /\ UNCHANGED <<jsonVars, batchVars, agentVars, registryVars, bridgeVars, compressVars, lifeVars, callVars, taskVars, trimVars, secVars, mailVars>>
    \/ ModelStops /\ UNCHANGED <<jsonVars, batchVars, agentVars, registryVars, bridgeVars, compressVars, lifeVars, callVars, taskVars, trimVars, secVars, mailVars>>
    \/ ModelRequestsTools /\ UNCHANGED <<jsonVars, batchVars, agentVars, registryVars, bridgeVars, compressVars, lifeVars, callVars, taskVars, trimVars, secVars, mailVars>>
    \/ ModelGoesOn /\ UNCHANGED <<jsonVars, batchVars, agentVars, registryVars, bridgeVars, compressVars, lifeVars, callVars, taskVars, trimVars, secVars, mailVars>>
    \/ ToolReturns /\ UNCHANGED <<jsonVars, batchVars, agentVars, registryVars, bridgeVars, compressVars, lifeVars, callVars, taskVars, trimVars, secVars, mailVars>>
    \/ ToolRaises /\ UNCHANGED <<jsonVars, batchVars, agentVars, registryVars, bridgeVars, compressVars, lifeVars, callVars, taskVars, trimVars, secVars, mailVars>>
    \/ ToolResultUnserializable /\ UNCHANGED <<jsonVars, batchVars, agentVars, registryVars, bridgeVars, compressVars, lifeVars, callVars, taskVars, trimVars, secVars, mailVars>>
    \/ SendExhausted /\ UNCHANGED <<jsonVars, batchVars, agentVars, registryVars, bridgeVars, compressVars, lifeVars, callVars, taskVars, trimVars, secVars, mailVars>>
    \/ ProcessBegin /\ UNCHANGED <<jsonVars, batchVars, sendVars, registryVars, bridgeVars, compressVars, lifeVars, callVars, taskVars, trimVars, secVars, mailVars>>
    \/ AgentModelFails /\ UNCHANGED <<jsonVars, batchVars, sendVars, registryVars, bridgeVars, compressVars, lifeVars, callVars, taskVars, trimVars, secVars, mailVars>>
    \/ AgentModelAnswers /\ UNCHANGED <<jsonVars, batchVars, sendVars, registryVars, bridgeVars, compressVars, lifeVars, callVars, taskVars, trimVars, secVars, mailVars>>
    \/ AgentModelRequestsTools /\ UNCHANGED <<jsonVars, batchVars, sendVars, registryVars, bridgeVars, compressVars, lifeVars, callVars, taskVars, trimVars, secVars, mailVars>>
    \/ AgentArgsUndecodable /\ UNCHANGED <<jsonVars, batchVars, sendVars, registryVars, bridgeVars, compressVars, lifeVars, callVars, taskVars, trimVars, secVars, mailVars>>
    \/ AgentToolReturns /\ UNCHANGED <<jsonVars, batchVars, sendVars, registryVars, bridgeVars, compressVars, lifeVars, callVars, taskVars, trimVars, secVars, mailVars>>
    \/ AgentToolRaises /\ UNCHANGED <<jsonVars, batchVars, sendVars, registryVars, bridgeVars, compressVars, lifeVars, callVars, taskVars, trimVars, secVars, mailVars>>
    \/ AgentFollowupFails /\ UNCHANGED <<jsonVars, batchVars, sendVars, registryVars, bridgeVars, compressVars, lifeVars, callVars, taskVars, trimVars, secVars, mailVars>>
    \/ AgentFollowupAnswers /\ UNCHANGED <<jsonVars, batchVars, sendVars, registryVars, bridgeVars, compressVars, lifeVars, callVars, taskVars, trimVars, secVars, mailVars>>
    \/ AgentExhausted /\ UNCHANGED <<jsonVars, batchVars, sendVars, registryVars, bridgeVars, compressVars, lifeVars, callVars, taskVars, trimVars, secVars, mailVars>>
    \/ ResetConversation /\ UNCHANGED <<jsonVars, batchVars, sendVars, registryVars, bridgeVars, compressVars, lifeVars, callVars, taskVars, trimVars, secVars, mailVars>>

SpecRounds == RoundsInit /\ [][RoundsNext]_vars

(***************************************************************************)
(* The two round controllers with a model that may also answer with more   *)
(* tool requests than max_tool_calls_per_message.                          *)
(***************************************************************************)
CapInit == RoundsInit

CapNext ==
    \/ ModelRequestsMany /\ UNCHANGED <<jsonVars, batchVars, agentVars, registryVars, bridgeVars, compressVars, lifeVars, callVars, taskVars, trimVars, secVars, mailVars>>
    \/ AgentModelRequestsMany /\ UNCHANGED <<jsonVars, batchVars, sendVars, registryVars, bridgeVars, compressVars, lifeVars, callVars, taskVars, trimVars, secVars, mailVars>>
    \/ RoundsNext

SpecCap == CapInit /\ [][CapNext]_vars

(***************************************************************************)
(* Everything that writes a conversation: the two round controllers with   *)
(* their resets, and the pruning of a conversation of any content.          *)
(***************************************************************************)
HistoryInit == RoundsInit \/ TrimInit

HistoryNext ==
    \/ TrimCall /\ UNCHANGED <<jsonVars, batchVars, sendVars, agentVars, registryVars, bridgeVars, compressVars, lifeVars, callVars, taskVars, secVars, mailVars>>
    \/ RoundsNext

SpecHistory == HistoryInit /\ [][HistoryNext]_vars

(***************************************************************************)
(* SuperSecretary: two threads calling start() and stop(), and the polling *)
(* threads.                                                                *)
(***************************************************************************)
SecInit ==
    /\ SecStart /\ JsonOff /\ BatchOff /\ SendOff /\ AgentOff /\ RegistryOff
    /\ BridgeOff /\ CompressOff /\ LifeOff /\ CallOff /\ TaskOff /\ TrimOff /\ MailOff

SecOthers ==
    UNCHANGED <<jsonVars, batchVars, sendVars, agentVars, registryVars, bridgeVars, compressVars, lifeVars, callVars, taskVars, trimVars, mailVars>>

SecNext ==
    \/ \E c \in Callers : StartEnter(c) /\ SecOthers
    \/ \E c \in Callers : StopClearsRunning(c) /\ SecOthers
    \/ \E c \in Callers : JoinReturns(c) /\ SecOthers
    \/ \E c \in Callers : JoinTimesOut(c) /\ SecOthers
    \/ \E c \in Callers : StartAgentOk(c) /\ SecOthers
    \/ \E c \in Callers : StartAgentFails(c) /\ SecOthers
    \/ \E c \in Callers : StartSetsRunning(c) /\ SecOthers
    \/ \E c \in Callers : StartSpawns(c) /\ SecOthers
    \/ \E w \in Workers : WorkerTest(w) /\ SecOthers
    \/ \E w \in Workers : WorkerChecked(w) /\ SecOthers
    \/ \E w \in Workers : WorkerWakes(w) /\ SecOthers

SpecSecretary == SecInit /\ [][SecNext]_vars

(***************************************************************************)
(* process_once: one call, for every argument and inbox within the bounds. *)
(***************************************************************************)
MailInit ==
    /\ MailStart /\ JsonOff /\ BatchOff /\ SendOff /\ AgentOff /\ RegistryOff
    /\ BridgeOff /\ CompressOff /\ LifeOff /\ CallOff /\ TaskOff /\ TrimOff /\ SecOff

MailNext ==
    \/ WhileTest /\ UNCHANGED <<jsonVars, batchVars, sendVars, agentVars, registryVars, bridgeVars, compressVars, lifeVars, callVars, taskVars, trimVars, secVars>>
    \/ ConnectFails /\ UNCHANGED <<jsonVars, batchVars, sendVars, agentVars, registryVars, bridgeVars, compressVars, lifeVars, callVars, taskVars, trimVars, secVars>>
    \/ ConnectOk /\ UNCHANGED <<jsonVars, batchVars, sendVars, agentVars, registryVars, bridgeVars, compressVars, lifeVars, callVars, taskVars, trimVars, secVars>>
    \/ HandleLoopEnds /\ UNCHANGED <<jsonVars, batchVars, sendVars, agentVars, registryVars, bridgeVars, compressVars, lifeVars, callVars, taskVars, trimVars, secVars>>
    \/ FetchNotOk /\ UNCHANGED <<jsonVars, batchVars, sendVars, agentVars, registryVars, bridgeVars, compressVars, lifeVars, callVars, taskVars, trimVars, secVars>>
    \/ FetchRaises /\ UNCHANGED <<jsonVars, batchVars, sendVars, agentVars, registryVars, bridgeVars, compressVars, lifeVars, callVars, taskVars, trimVars, secVars>>
    \/ SkipNotAllowed /\ UNCHANGED <<jsonVars, batchVars, sendVars, agentVars, registryVars, bridgeVars, compressVars, lifeVars, callVars, taskVars, trimVars, secVars>>
    \/ HandleDiary /\ UNCHANGED <<jsonVars, batchVars, sendVars, agentVars, registryVars, bridgeVars, compressVars, lifeVars, callVars, taskVars, trimVars, secVars>>
    \/ HandleWeekly /\ UNCHANGED <<jsonVars, batchVars, sendVars, agentVars, registryVars, bridgeVars, compressVars, lifeVars, callVars, taskVars, trimVars, secVars>>
    \/ HandleNoCommand /\ UNCHANGED <<jsonVars, batchVars, sendVars, agentVars, registryVars, bridgeVars, compressVars, lifeVars, callVars, taskVars, trimVars, secVars>>
    \/ Collect /\ UNCHANGED <<jsonVars, batchVars, sendVars, agentVars, registryVars, bridgeVars, compressVars, lifeVars, callVars, taskVars, trimVars, secVars>>
    \/ LogoutOk /\ UNCHANGED <<jsonVars, batchVars, sendVars, agentVars, registryVars, bridgeVars, compressVars, lifeVars, callVars, taskVars, trimVars, secVars>>
    \/ LogoutRaises /\ UNCHANGED <<jsonVars, batchVars, sendVars, agentVars, registryVars, bridgeVars, compressVars, lifeVars, callVars, taskVars, trimVars, secVars>>

SpecMail == MailInit /\ [][MailNext]_vars

(***************************************************************************)
(* Properties.                                                             *)
(***************************************************************************)
\* the number of model calls an event log records
ModelCalls(ev) == Cardinality({k \in 1..Len(ev) : ev[k].kind = "model"})

\* the index of the last assistant turn of h, 0 if there is none
LastAssistant(h) ==
    LET A == {k \in 1..Len(h) : h[k].role = "assistant"}
    IN IF A = {} THEN 0 ELSE CHOOSE k \in A : \A j \in A : j <= k

\* h without its last turn
Front(h) == SubSeq(h, 1, Len(h) - 1)

\* C1 (Client.send): a round is only ever started with round_idx within
\* MAX_TOOL_ROUNDS, so one send makes at most MAX_TOOL_ROUNDS model calls; a
\* send that used them all without a 'stop' ends round-limit-exhausted, and
\* then the last response of the model is still the last assistant turn
\* before the appended limit message.
C1_SendRounds ==
    /\ ModelCalls(s_events) <= MAX_TOOL_ROUNDS
    /\ Len(s_resps) <= MAX_TOOL_ROUNDS
    /\ spc = "tools" => round_idx <= MAX_TOOL_ROUNDS
    /\ (spc = "idle" /\ s_terminal # "raised" /\ Len(s_resps) = MAX_TOOL_ROUNDS
           /\ s_resps[Len(s_resps)].finish_reason # "stop")
       => s_terminal = "round-limit-exhausted"
    /\ (s_terminal = "round-limit-exhausted" /\ messages # SystemOnly)
       => /\ spc = "idle"
          /\ Len(s_resps) = MAX_TOOL_ROUNDS
          /\ messages[Len(messages)] = Turn("assistant", FailContent, <<>>, 0)
          /\ LET j == LastAssistant(Front(messages))
                 r == s_resps[Len(s_resps)]
             IN /\ j > 0
                /\ messages[j].content = r.content
                /\ messages[j].tool_calls = r.tool_calls

\* C1 (AIAgent.process_message): current_round never exceeds the limit, and a
\* call that ends round-limit-exhausted returns the content of its last round,
\* which is also the assistant turn it leaves at the end of the history.
C1_AgentRounds ==
    /\ current_round <= AGENT_MAX_TOOL_ROUNDS
    /\ a_terminal = "round-limit-exhausted"
       => /\ apc = "idle"
          /\ current_round = AGENT_MAX_TOOL_ROUNDS
          /\ a_ret = response_content
          /\ conversation_history # InitialHistory
             => conversation_history[Len(conversation_history)] =
                    Turn("assistant", response_content, <<>>, 0)

\* C1: in one call of Client.send or of AIAgent.process_message the round
\* counter never exceeds the configured maximum, no round is started once it
\* is reached, and reaching it without a stop signal ends the call in the
\* round-limit-exhausted state with the last assistant content preserved.
C1_RoundLimit == C1_SendRounds /\ C1_AgentRounds

\* C1 witness: a send that ran out of rounds while the model kept asking for tools
C1_Witness ==
    /\ s_terminal = "round-limit-exhausted"
    /\ messages # SystemOnly
    /\ s_resps[Len(s_resps)].tool_calls # <<>>
    /\ ModelCalls(s_events) = MAX_TOOL_ROUNDS

\* every tool turn of h answers a request of the nearest preceding assistant
\* turn, with only tool turns in between
PairedToolTurns(h) ==
    \A k \in 1..Len(h) :
        h[k].role = "tool" =>
            \E j \in 1..(k - 1) :
                /\ h[j].role = "assistant"
                /\ \A m \in (j + 1)..(k - 1) : h[m].role = "tool"
                /\ \E q \in 1..Len(h[j].tool_calls) :
                       h[j].tool_calls[q].id = h[k].tool_call_id

\* C2: in Client.messages every tool turn carries the id of a Tool Request of
\* the nearest preceding assistant turn, and only tool turns of that
\* assistant turn lie between them.
C2_SendToolTurnsPaired == PairedToolTurns(messages)

\* C2 witness: a round with two requests has been answered and a later round begun
C2_Witness ==
    /\ round_idx >= 2
    /\ \E k \in 2..Len(messages) :
           /\ messages[k].role = "tool"
           /\ messages[k - 1].role = "tool"
           /\ messages[k].tool_call_id # messages[k - 1].tool_call_id

\* C3: in AIAgent.conversation_history every tool turn answers a Tool Request
\* of the nearest preceding assistant turn (no orphaned tool-result turn).
C3_AgentToolTurnsPaired == PairedToolTurns(conversation_history)

\* the model answered first with tool requests and no 'stop', then with 'stop'
ToolsThenStop ==
    /\ s_start = SystemOnly
    /\ Len(s_resps) >= 2
    /\ s_resps[1].tool_calls # <<>>
    /\ s_resps[1].finish_reason # "stop"
    /\ s_resps[2].finish_reason = "stop"

\* C4: from a conversation of the system turn only, a send whose model answers
\* first with k >= 1 Tool Requests (no 'stop') and then with 'stop' executes
\* the k tools between exactly two model calls, leaves [system, user,
\* assistant with the requests, k tool turns in request order, final
\* assistant], and returns the final assistant content.
C4_ToolsThenStopScenario ==
    ToolsThenStop =>
        LET r1 == s_resps[1]
            r2 == s_resps[2]
            k == Len(r1.tool_calls)
        IN /\ spc = "idle"
           /\ s_terminal = "stopped-by-model"
           /\ Len(s_resps) = 2
           /\ ModelCalls(s_events) = 2
           /\ s_events = <<ModelEvent>>
                           \o [q \in 1..k |-> ToolEvent(r1.tool_calls[q].id)]
                           \o <<ModelEvent>>
           /\ s_ret = r2.content
           /\ messages # SystemOnly
              => /\ Len(messages) = k + 4
                 /\ messages[1] = SystemOnly[1]
                 /\ messages[2].role = "user"
                 /\ messages[3] = Turn("assistant", r1.content, r1.tool_calls, 0)
                 /\ \A q \in 1..k :
                        /\ messages[3 + q].role = "tool"
                        /\ messages[3 + q].tool_call_id = r1.tool_calls[q].id
                 /\ messages[k + 4] = Turn("assistant", r2.content, r2.tool_calls, 0)

\* C4 witness: such a send with two requests has returned
C4_Witness ==
    /\ ToolsThenStop
    /\ Len(s_resps[1].tool_calls) = 2
    /\ spc = "idle"
    /\ Len(messages) = 6

\* C5: len(tool_call_history) equals the number of tool requests executed so
\* far, after any sequence of process_message calls.
C5_HistoryCountsExecutions == Len(tool_call_history) = a_executed

\* the value pieces a composed text was built from, and the last of them
ValueSegs == SelectSeq(segs, LAMBDA p : p.kind = "value")

LastValue == ValueSegs[Len(ValueSegs)].val

\* what the parser is to return for a last value v
Intended(v) == IF v.t = "list" THEN v.e[1] ELSE v

\* C6: for a text of N >= 1 well-formed JSON objects separated by prose,
\* safe_json_loads returns the last object, or the first element of a last
\* value that is a non-empty array of objects.
C6_LastObjectWins ==
    (jpc = "done" /\ ValueSegs # <<>>) => jresult = Intended(LastValue)

\* no position of s starts a decodable value
NoValue(s) == \A k \in 0..(Len(s) - 1) : ~raw_decode(s, k).ok

Succeeded(k) ==
    \E v \in 1..Len(b_invoked) : b_invoked[v].i = k - 1 /\ ~b_invoked[v].raised

\* C8: batch_exec ends without raising; for an unknown tool it returns a
\* failure envelope; for a known tool and K entries it returns K results with
\* indices 0..K-1 in input order, entry i a failure exactly when it is no
\* mapping or the tool raised on it.
C8_BatchEnvelope ==
    /\ bpc \in {"call", "loop", "done"}
    /\ bpc = "done" =>
           IF b_tool \notin KnownTools
           THEN /\ b_ret.ok = FALSE
                /\ b_ret.error # ""
                /\ b_invoked = <<>>
           ELSE /\ b_ret.ok = TRUE
                /\ Len(b_ret.results) = Len(b_args)
                /\ \A k \in 1..Len(b_args) :
                       /\ b_ret.results[k].i = k - 1
                       /\ b_ret.results[k].ok <=> (b_args[k] = "dict" /\ Succeeded(k))
                       /\ b_args[k] # "dict" =>
                              ~\E v \in 1..Len(b_invoked) : b_invoked[v].i = k - 1

\* C8 witness: a batch whose first entry is no mapping, in which the tool
\* raised once, and whose last entry still succeeded
C8_Witness ==
    /\ bpc = "done"
    /\ b_tool \in KnownTools
    /\ Len(b_args) = MaxBatch
    /\ b_args[1] # "dict"
    /\ \E v \in 1..Len(b_invoked) : b_invoked[v].raised
    /\ b_ret.results[MaxBatch].ok

\* the positions of mcp_tools that hold a descriptor named n
DescriptorsOf(n) == {k \in 1..Len(mcp_tools) : mcp_tools[k].name = n}

\* both providers are enabled, both started, both expose n
BothExpose(n) ==
    /\ Len(servers) = 2
    /\ \A k \in 1..2 : servers[k].name \in started /\ n \in servers[k].tools

\* C9: when two enabled providers expose a tool of the same name, after
\* get_mcp_tools the registry holds exactly one descriptor and one invoker for
\* it, both of the later provider, and _tool_to_service_map names the later
\* provider.
C9_LaterProviderOnly ==
    (rpc = "done" /\ BothExpose("status")) =>
        /\ Cardinality(DescriptorsOf("status")) = 1
        /\ \A k \in DescriptorsOf("status") : mcp_tools[k].provider = servers[2].name
        /\ mcp_funcDict["status"] = servers[2].name
        /\ tool_to_service_map["status"] = servers[2].name

\* C10: once a stop() has completed, a further call of stop() attempts no
\* close, signals no loop stop, joins nothing, leaves every caller where it
\* was, and returns at the idempotency check.
C10_StopAgainIsNoop ==
    [][(completed >= 1 /\ stop_calls' = stop_calls + 1)
          => /\ closes' = closes
             /\ loop_stops' = loop_stops
             /\ joins' = joins
             /\ tpc' = tpc
             /\ stopped' = stopped
             /\ noops' = noops + 1]_vars

\* C10 witness: two further calls were made after a completed stop()
C10_Witness ==
    /\ completed >= 1
    /\ late_noops >= 2
    /\ \A c \in Callers : tpc[c] = "idle"

(***************************************************************************)
(* C11: for every tool result r that is compact structured text,           *)
(* compressing the compressor's output again yields the same text as       *)
(* compressing r once, in the Client.send step and in                      *)
(* AIAgent._compress_tool_result alike.                                    *)
(***************************************************************************)
\* s is structured text that its own compact serialization reproduces
IsCompact(s) ==
    /\ is_json_like(s)
    /\ loads(s).ok
    /\ dumps(loads(s).obj, <<>>) = s

C11_CompressTwiceIsOnce ==
    (cpc = "twice" /\ c_type = "str" /\ IsCompact(c_in)) => c_twice = c_once

(***************************************************************************)
(* C14: a tool invocation through the Bridge never raises to its caller:   *)
(* whatever failed in the provider call (tool error, timeout, closed       *)
(* channel, stopped Bridge), _call returns recovered text or the raw error *)
(* text.                                                                   *)
(***************************************************************************)
C14_CallerNeverRaises ==
    k_calls >= 1 =>
        /\ k_last.ended = "returned"
        /\ k_last.failure # "none" => k_last.value \in {"recovered", "error_text"}

(***************************************************************************)
(* C15: when the connection fails during construction, the constructor     *)
(* raises and no worker thread or event loop of the Bridge keeps running.  *)
(***************************************************************************)
C15_FailedCtorLeavesNothing ==
    ctor = "failed" => ~loop_running /\ ~thread_alive

(***************************************************************************)
(* C12: when the model call raises in some round, neither Client.send nor  *)
(* AIAgent.process_message lets the exception reach its caller: the round  *)
(* gets a fallback assistant message and the round limit is tested next.   *)
(***************************************************************************)
C12_ModelFailureNotPropagated ==
    /\ s_terminal = "raised" => s_events[Len(s_events)] # ModelEvent
    /\ a_terminal # "raised"

(***************************************************************************)
(* C13: when the invocation of a requested tool raises (an unknown tool    *)
(* name included), the controller appends an error-text tool-result turn   *)
(* for that request, goes on to the next request of the turn, or to the    *)
(* next round after the last one, and no exception reaches the caller.     *)
(***************************************************************************)
\* the step of send in which the invocation of request call_k raised
SendToolRaised ==
    /\ spc = "tools"
    /\ s_log' = Append(s_log, Dispatch(resp.tool_calls[call_k].id, "raised"))

\* the step of _handle_standard_tool_calls in which call_tool raised
AgentToolRaised ==
    /\ apc = "tools"
    /\ a_log' = Append(a_log, AgentToolEvent(a_resp.tool_calls[a_k].id, "raised"))

ErrorTurnFor(h, id) ==
    /\ h # <<>>
    /\ h[Len(h)].role = "tool"
    /\ h[Len(h)].tool_call_id = id
    /\ h[Len(h)].content \in {"err", "Error"}

C13_ToolFailureBecomesTurn ==
    [][ /\ SendToolRaised =>
            /\ Front(messages') = messages
            /\ ErrorTurnFor(messages', resp.tool_calls[call_k].id)
            /\ s_terminal' = "none"
            /\ IF call_k < Len(resp.tool_calls)
               THEN spc' = "tools" /\ call_k' = call_k + 1 /\ resp' = resp
               ELSE spc' = "loop" /\ round_idx' = round_idx + 1
        /\ AgentToolRaised =>
            /\ Front(conversation_history') = conversation_history
            /\ ErrorTurnFor(conversation_history', a_resp.tool_calls[a_k].id)
            /\ a_terminal' = "none"
            /\ IF a_k < Len(a_resp.tool_calls)
               THEN apc' = "tools" /\ a_k' = a_k + 1 /\ a_resp' = a_resp
               ELSE apc' = "followup" ]_vars

\* the first of two requests raised, the second was dispatched after it, and
\* send is at the loop test of the next round
C13_Witness ==
    /\ Len(s_log) = 2
    /\ s_log[1] = Dispatch(2, "raised")
    /\ s_log[2].id = 1
    /\ messages[Len(messages) - 1] = ToolTurn(Req(2, "web_search"), "err")
    /\ spc = "loop"
    /\ round_idx = 2
    /\ s_terminal = "none"

(***************************************************************************)
(* C16: in get_mcp_tools a disabled provider is skipped and no Bridge is   *)
(* built for it; a provider whose Bridge fails to start contributes no     *)
(* tools and the loop goes on; every enabled provider that starts has all  *)
(* of its tools registered, wherever it stands in the configuration.       *)
(***************************************************************************)
HasBridge(n) == \E k \in 1..Len(mcp_bridges) : mcp_bridges[k] = n

\* nothing of provider n is in the registry
NoTools(n) ==
    /\ \A k \in 1..Len(mcp_tools) : mcp_tools[k].provider # n
    /\ \A t \in DOMAIN mcp_funcDict : mcp_funcDict[t] # n
    /\ \A k \in 1..Len(mcp_service_info) : mcp_service_info[k].name # n

\* tool t of started provider n has its descriptor and resolves to an invoker
Registered(t, n) ==
    /\ \E k \in 1..Len(mcp_tools) : mcp_tools[k] = Descriptor(t, n)
    /\ t \in DOMAIN mcp_funcDict
    /\ mcp_funcDict[t] \in started
    /\ \E k \in 1..Len(mcp_service_info) :
           mcp_service_info[k].name = n /\ t \in mcp_service_info[k].tools

Ambiguous(finish, calls) == finish # "stop" /\ calls = <<>>

C17_AmbiguousRoundEnds ==
    /\ \A k \in 1..Len(s_resps) :
           Ambiguous(s_resps[k].finish_reason, s_resps[k].tool_calls) =>
               /\ k = Len(s_resps)
               /\ ModelCalls(s_events) = k
               /\ spc = "idle"
               /\ s_ret = s_resps[k].content
    /\ \A k \in 1..Len(a_log) :
           (a_log[k].kind = "model" /\ a_log[k].how # "error"
              /\ Ambiguous(a_log[k].how, a_log[k].calls)) =>
               /\ k = Len(a_log)
               /\ apc = "idle"
               /\ a_ret = a_log[k].content

(***************************************************************************)
(* C18: of an assistant turn that carries more tool requests than          *)
(* max_tool_calls_per_message, only the first max_tool_calls_per_message   *)
(* are executed in that round; the excess requests are left unexecuted.    *)
(***************************************************************************)
\* the tool invocations send has made since its last model call
SinceModelCall(ev) ==
    LET M == {k \in 1..Len(ev) : ev[k].kind = "model"}
    IN IF M = {} THEN 0 ELSE Len(ev) - (CHOOSE k \in M : \A j \in M : j <= k)

C18_AtMostMaxPerTurn ==
    /\ SinceModelCall(s_events) <= max_tool_calls_per_message
    /\ Len(tool_results) <= max_tool_calls_per_message

(***************************************************************************)
(* C19: when the argument text of a tool request holds no decodable        *)
(* object, the controller still invokes the tool, with an empty argument   *)
(* mapping, appends its tool-result turn and goes on to the remaining      *)
(* requests of the turn.                                                   *)
(***************************************************************************)
\* the step of _handle_standard_tool_calls that takes a request whose
\* argument text cannot be decoded
AgentArgsUndecoded ==
    /\ apc = "tools"
    /\ a_log' = Append(a_log, AgentToolEvent(a_resp.tool_calls[a_k].id, "undecodable"))

C19_UndecodableArgsStillInvoke ==
    [][ AgentArgsUndecoded =>
            /\ a_executed' = a_executed + 1
            /\ Front(conversation_history') = conversation_history
            /\ conversation_history'[Len(conversation_history')].role = "tool"
            /\ conversation_history'[Len(conversation_history')].tool_call_id =
                   a_resp.tool_calls[a_k].id
            /\ IF a_k < Len(a_resp.tool_calls)
               THEN apc' = "tools" /\ a_k' = a_k + 1
               ELSE apc' = "followup" ]_vars

(***************************************************************************)
(* C20: each tool request of an assistant turn is dispatched to its tool   *)
(* exactly once, in the order the model listed the requests, its           *)
(* tool-result turn appended before the next request is dispatched and     *)
(* before the next model call; a request that failed is not dispatched     *)
(* again.                                                                  *)
(***************************************************************************)
Ids(calls) == [j \in 1..Len(calls) |-> calls[j].id]

IsPrefix(a, b) == Len(a) <= Len(b) /\ a = SubSeq(b, 1, Len(a))

\* the end of the run of tool events that follows position p of log ev
RunStop(ev, p) ==
    LET later == {q \in (p + 1)..Len(ev) : ev[q].kind # "tool"}
    IN IF later = {} THEN Len(ev) + 1 ELSE CHOOSE q \in later : \A j \in later : q <= j

\* the events of that run
RunAfter(ev, p) == SubSeq(ev, p + 1, RunStop(ev, p) - 1)

\* the requests send dispatched after the model call at position p
SendDispatched(p) == Ids(RunAfter(s_events, p))

\* the requests of the response the model call at position p of s_events
\* brought; a call that raised brought none
SendRequested(p) ==
    LET k == Cardinality({j \in 1..p : s_events[j].kind = "model"})
    IN IF k <= Len(s_resps) THEN Ids(s_resps[k].tool_calls) ELSE <<>>

\* the requests _handle_standard_tool_calls handed to call_tool after the
\* model call at position p
AgentDispatched(p) ==
    Ids(SelectSeq(RunAfter(a_log, p), LAMBDA e : e.how \in {"returned", "raised"}))

DispatchedInOrder ==
    /\ \A p \in 1..Len(s_events) :
           s_events[p].kind = "model" => IsPrefix(SendDispatched(p), SendRequested(p))
    /\ \A p \in 1..Len(a_log) :
           a_log[p].kind = "model" => IsPrefix(AgentDispatched(p), Ids(a_log[p].calls))

\* a dispatch appends the tool-result turn of its request in the same step,
\* or else ends the call with an exception
TurnWithDispatch ==
    /\ (Len(s_log') = Len(s_log) + 1) =>
           LET d == s_log'[Len(s_log')]
           IN IF d.how = "unserializable"
              THEN spc' = "idle" /\ s_terminal' = "raised"
              ELSE /\ Front(messages') = messages
                   /\ messages'[Len(messages')].role = "tool"
                   /\ messages'[Len(messages')].tool_call_id = d.id
    /\ (Len(a_log') = Len(a_log) + 1 /\ a_log'[Len(a_log')].kind = "tool"
          /\ a_log'[Len(a_log')].how # "undecodable") =>
           /\ Front(conversation_history') = conversation_history
           /\ conversation_history'[Len(conversation_history')].role = "tool"
           /\ conversation_history'[Len(conversation_history')].tool_call_id =
                  a_log'[Len(a_log')].id

C21_ProviderFailureIsFailure ==
    (ppc = "done" /\ p_resp.kind = "tool_error") => p_exec.success = FALSE


\* the list an envelope's content stands for
ContentOf(res) == IF res.has_content THEN res.content ELSE <<>>

RECURSIVE ConcatTexts(_)
ConcatTexts(content) ==
    IF content = <<>> THEN <<>>
    ELSE (IF Head(content).has_text THEN Head(content).text ELSE <<>>)
         \o ConcatTexts(Tail(content))

\* the segments of an envelope that carry a non-empty text
Textual(res) ==
    {k \in 1..Len(ContentOf(res)) : ContentOf(res)[k].has_text
                                     /\ ContentOf(res)[k].text # <<>>}

\* C29 (as stated): on the success path the Bridge returns the provider's data
\* if supplied; otherwise the concatenation of all textual segments of the
\* response; otherwise None.
C29_DataElseAllTexts ==
    (ppc # "call" /\ p_resp.kind = "result") =>
        p_ret = Returned(IF p_resp.data # "None" THEN Val("data", <<p_resp.data>>)
                         ELSE IF Textual(p_resp) # {}
                              THEN Val("text", ConcatTexts(ContentOf(p_resp)))
                              ELSE Val("None", <<>>))

\* C29 (amended): on the success path the Bridge returns the provider's data
\* if it is not None; otherwise the text of the first segment, in the order of
\* the response, that has a non-empty text; otherwise None.
C29_DataElseFirstText ==
    (ppc # "call" /\ p_resp.kind = "result") =>
        p_ret = Returned(IF p_resp.data # "None" THEN Val("data", <<p_resp.data>>)
                         ELSE IF Textual(p_resp) # {}
                              THEN Val("text",
                                       ContentOf(p_resp)[CHOOSE k \in Textual(p_resp) :
                                           \A j \in Textual(p_resp) : k <= j].text)
                              ELSE Val("None", <<>>))

C29_Witness ==
    /\ ppc = "done"
    /\ p_resp = Envelope("None", TRUE, <<Segment(TRUE, <<"t">>), Segment(TRUE, <<"u">>)>>)
    /\ p_ret = Returned(Val("text", <<"t">>))


\* the coroutines the loop has started and that have not ended
InProgress == {n \in 1..Len(tasks) : tasks[n].st = "running"}

\* C26: at most one tool call of a Bridge is in progress inside its event loop
\* at any time: a call submitted while an earlier one is still executing does
\* not start before the earlier one has ended.
C26_OneCallInProgress == Cardinality(InProgress) <= 1

TimedOut(c) == \E k \in 1..Len(t_out[c]) : t_out[c][k] = "timeout"

\* C27: a call that times out raises the timeout to its caller and changes
\* nothing of the Bridge: as long as nobody has called stop(), the Bridge is
\* not marked stopped, its loop and worker run and its client is connected.
C27_TimeoutLeavesBridge ==
    \A c \in Callers :
        (TimedOut(c) /\ stop_calls = 0) =>
            (~stopped /\ loop_running /\ thread_alive /\ connected
             /\ ~stop_signalled)

\* a caller timed out and its next call on the same Bridge returned a result
C27_Witness ==
    /\ stop_calls = 0
    /\ t_out["c1"] = <<"timeout", "result">>


One(b) == IF b THEN 1 ELSE 0

\* what a thread does when it leaves the close, the signal and the join step
StopStepsInOrder ==
    \A c \in Callers :
        /\ (tpc[c] = "close" /\ tpc'[c] # "close") =>
               /\ tpc'[c] = "signal"
               /\ closes' = closes + One(loop_running)
               /\ loop_stops' = loop_stops /\ joins' = joins
        /\ (tpc[c] = "signal" /\ tpc'[c] # "signal") =>
               /\ tpc'[c] = "join"
               /\ loop_stops' = loop_stops + One(loop_running)
               /\ closes' = closes /\ joins' = joins
        /\ (tpc[c] = "join" /\ tpc'[c] # "join") =>
               /\ tpc'[c] = "idle"
               /\ joins' = joins + One(thread_alive)
               /\ completed' = completed + 1
               /\ closes' = closes /\ loop_stops' = loop_stops

\* while the first stop() is the only one: no signal before the close, no join
\* before the signal, and at its return one close, one signal and the join of
\* a worker that was still alive have been done
FirstStopDone ==
    stop_calls = 1 =>
        /\ closes <= 1 /\ loop_stops <= closes /\ joins <= loop_stops
        /\ completed = 1 => (closes = 1 /\ loop_stops = 1
                             /\ (joins = 0 => ~thread_alive))

\* C28: the first stop() on a running Bridge closes the provider connection
\* (waiting at most 1 s), then signals the loop to stop, then joins the worker
\* (waiting at most 1 s); the signal and the join are done whatever the close
\* did, and stop() always returns, whether or not the worker has ended.
C28_StopClosesSignalsJoins ==
    /\ [][StopStepsInOrder]_vars
    /\ []FirstStopDone
    /\ \A c \in Callers : (tpc[c] = "mark") ~> (tpc[c] = "idle")

\* C28 witness: the first stop() has returned after a close that failed, with
\* the signal sent and the worker joined in vain (it is still alive)
C28_Witness ==
    /\ stop_calls = 1 /\ completed = 1
    /\ closes = 1 /\ connected
    /\ loop_stops = 1 /\ joins = 1 /\ thread_alive


\* the indices below n of the entries of args_list that are mappings, ascending
MappingEntries(n) ==
    SelectSeq([k \in 1..n |-> k - 1], LAMBDA j : b_args[j + 1] = "dict")

\* C30: batch_exec invokes the target tool once for every mapping entry of
\* args_list, in index order, one invocation ended and recorded before the
\* next begins, whatever mode and max_concurrency are.
C30_SequentialWhateverMode ==
    /\ [k \in 1..Len(b_invoked) |-> b_invoked[k].i] = MappingEntries(b_i)
    /\ [k \in 1..Len(b_results) |-> b_results[k].i] = [k \in 1..b_i |-> k - 1]
    /\ (bpc = "done" /\ b_tool \in KnownTools) => b_i = Len(b_args)

\* C30 witness: a parallel batch of three entries has returned
C30_Witness ==
    /\ bpc = "done"
    /\ b_mode = "parallel" /\ b_max = 4
    /\ b_args = <<"dict", "other", "dict">>
    /\ Len(b_invoked) = 2


\* C25: after construction no round asks a provider for its tools again: the
\* descriptor list sent with every model call is the one cached at discovery.
C25_DescriptorsNotRequeried ==
    /\ \A p \in 1..Len(s_events) :
           s_events[p].kind = "model" => s_events[p].tools = "cached"
    /\ \A p \in 1..Len(a_log) :
           a_log[p].kind \in {"model", "followup"} => a_log[p].tools = "cached"


\* the call prunes in its over-budget branch
OverBudget(h) == Len(h) > 10 /\ TotalChars(h) \div 4 > max_tokens

\* the last n turns of h
LastTurns(h, n) == SubSeq(h, Len(h) - n + 1, Len(h))

\* C22: when _trim_conversation_history prunes an over-budget conversation
\* with at least 8 turns after the system turn, the 8 most recent turns are
\* all kept, whatever their sizes.
C22_RecentEightKept ==
    (hpc = "done" /\ OverBudget(h_in) /\ Len(h_in) - 1 >= 8) =>
        /\ Len(h_out) >= 9
        /\ LastTurns(h_out, 8) = LastTurns(h_in, 8)

RECURSIVE IsSubsequence(_, _)
\* a can be had from b by deleting turns
IsSubsequence(a, b) ==
    IF a = <<>> THEN TRUE
    ELSE IF b = <<>> THEN FALSE
    ELSE IF Head(a) = Head(b) THEN IsSubsequence(Tail(a), Tail(b))
    ELSE IsSubsequence(a, Tail(b))

\* C24: pruning never reorders: the conversation _trim_conversation_history
\* leaves is a subsequence of the one it found (same relative order, nothing
\* duplicated or created), in the over-budget and in the keep-last-9 branch.
C24_TrimKeepsOrder == hpc = "done" => IsSubsequence(h_out, h_in)

\* C24 witness: an over-budget conversation from which an old summary turn was
\* kept in front of the recent turns and the turn after it dropped
C24_Witness ==
    /\ hpc = "done"
    /\ OverBudget(h_in)
    /\ Len(h_in) = 11 /\ Len(h_out) = 10
    /\ h_in[2].content = "A+summary" /\ h_in[3].content = "A"
    /\ h_out[2].content = "A+summary"
    /\ h_in[11].content = "BIG"


\* h opens with the system turn of creation and holds no other system turn
SystemPinned(h) ==
    /\ Len(h) >= 1
    /\ h[1] = Turn("system", "S", <<>>, 0)
    /\ \A k \in 2..Len(h) : h[k].role # "system"

\* C23: whatever process_message, _trim_conversation_history and
\* reset_conversation (AIAgent) or send and rest_message (Client, after
\* set_model) have done, the conversation holds exactly one system turn, at
\* index 0, with the content set at creation or reset.
C23_SystemTurnPinned ==
    /\ apc # "off" => SystemPinned(conversation_history)
    /\ spc # "off" => SystemPinned(messages)
    /\ hpc = "done" => SystemPinned(h_out)

\* C23 witness: a pruning that left the system turn and one turn only
C23_Witness ==
    /\ hpc = "done"
    /\ Len(h_in) = 11 /\ Len(h_out) = 2
    /\ h_out[1].role = "system"


\* C34: when stop() is invoked from two threads at once on a running Bridge,
\* the close of the provider connection (__aexit__) is submitted at most once
\* and only one of the invocations goes through the shutdown steps.
C34_OneShutdown ==
    /\ closes <= 1
    /\ Cardinality({c \in Callers : tpc[c] \in {"mark", "close", "signal", "join"}}) <= 1
    /\ completed <= 1


\* every iteration of the scan moves the cursor forward or leaves the loop
CursorAdvances == jpc = "scan" => (i' > i \/ jpc' = "done")

\* C40: the scan of _iter_json_objects terminates on every finite input: the
\* cursor grows strictly with every iteration that stays in the loop, it
\* stays within the text, at most len(s) decode attempts are made, and the
\* scan ends.
C40_ScanTerminates ==
    /\ [][CursorAdvances]_vars
    /\ [](i <= Len(text) /\ attempts <= Len(text))
    /\ <>(jpc = "done")

\* C40 witness: a scan that made as many attempts as the text has characters
C40_Witness ==
    /\ jpc = "done"
    /\ Len(text) >= 3
    /\ attempts = Len(text)


\* C32: safe_json_loads always returns a mapping: the empty mapping when
\* nothing was decoded; else the last decoded value if it is a mapping, its
\* first element if it is a non-empty sequence that starts with a mapping,
\* and {"_value": value} for any other value (scalar, empty sequence,
\* sequence not starting with a mapping).
C32_MappingOrWrapped ==
    jpc = "done" =>
        /\ jresult.t = "dict"
        /\ yields = 0 => jresult = Dict(<<>>)
        /\ yields > 0 =>
               jresult = IF last.t = "dict" THEN last
                         ELSE IF last.t = "list" /\ last.e # <<>> /\ last.e[1].t = "dict"
                              THEN last.e[1]
                              ELSE ValueDict(last)


\* C31: for a tool result that is a mapping or a sequence and can be
\* serialized, AIAgent._compress_tool_result returns its compact
\* serialization, not truncated; the cut at 500 is made only when the
\* serialization fails.
C31_CompactSerialization ==
    (cpc # "start" /\ c_who = "agent" /\ c_type = "obj") =>
        c_once = dumps(loads(c_in).obj, <<>>)


RECURSIVE RoundShapes(_)
\* role and request id of the turns that completed rounds with the responses
\* rs leave: per round the assistant turn, then one tool turn per request
RoundShapes(rs) ==
    IF rs = <<>> THEN <<>>
    ELSE <<[role |-> "assistant", id |-> 0]>>
         \o [q \in 1..Len(rs[1].tool_calls) |->
                [role |-> "tool", id |-> rs[1].tool_calls[q].id]]
         \o RoundShapes(Tail(rs))

ShapeOf(h) == [k \in 1..Len(h) |-> [role |-> h[k].role, id |-> h[k].tool_call_id]]

\* send has ended with the exception of a model call
ModelCallRaised ==
    /\ s_terminal = "raised"
    /\ s_events # <<>> /\ s_events[Len(s_events)] = ModelEvent

\* the conversation is the one send found, the user turn, and the turns of
\* the rounds completed so far, and its tool turns are paired
CompletedRoundsOnly ==
    /\ Len(messages) >= Len(s_start) + 1
    /\ SubSeq(messages, 1, Len(s_start) + 1)
         = Append(s_start, Turn("user", "U", <<>>, 0))
    /\ ShapeOf(SubSeq(messages, Len(s_start) + 2, Len(messages)))
         = RoundShapes(s_resps)
    /\ \A k \in 1..Len(s_resps) :
           \E j \in 1..Len(messages) :
               messages[j] = Turn("assistant", s_resps[k].content,
                                  s_resps[k].tool_calls, 0)
    /\ PairedToolTurns(messages)

\* C39: when Client.send raises because the model call of round r failed,
\* nothing is rolled back: the conversation is the one send found, then the
\* user turn, then the turns of the completed rounds 1..r-1; it satisfies the
\* pairing of tool turns; and the registry is as it was.
C39_NothingRolledBack ==
    [][(spc = "loop" /\ s_terminal' = "raised")
         => /\ messages' = messages
            /\ UNCHANGED registryVars
            /\ CompletedRoundsOnly]_vars

\* C39 witness: the model call of the second round failed after a first round
\* with two tool requests
C39_Witness ==
    /\ ModelCallRaised
    /\ Len(s_resps) = 1
    /\ Len(s_resps[1].tool_calls) = 2
    /\ Len(messages) = Len(s_start) + 4


\* the tool names advertised to the model
Advertised == {mcp_tools[k].name : k \in 1..Len(mcp_tools)}

\* C33: after the registry is built, whatever providers are disabled, fail to
\* construct or fail in get_tools / get_service_info / get_func_map, the tool
\* names advertised to the model are exactly the keys of the invoker map,
\* each name in exactly one descriptor.
C33_AdvertisedIsInvocable ==
    rpc = "done" =>
        /\ Advertised = DOMAIN mcp_funcDict
        /\ \A n \in Advertised : Cardinality(DescriptorsOf(n)) = 1


\* the polling threads that are executing _polling_worker
Polling == {w \in Workers : worker[w] \in Alive}

\* C35: however start() and stop() interleave, at most one thread is
\* executing _polling_worker at any time.
C35_OnePollingWorker == Cardinality(Polling) <= 1

\* C36: process_once opens at most max_retries IMAP sessions and returns a
\* list whatever max_retries is: the messages of the attempt that went
\* through, or the empty list when every attempt failed.
C36_BoundedAttemptsReturnsList ==
    /\ imap_attempts <= max_retries
    /\ mpc = "returned" =>
          /\ m_ret.kind = "list"
          /\ retry = max_retries => m_ret.items = <<>>

\* C37: within one call of process_once the command of a message (add_diary
\* or gen_weekly) runs at most once, whatever attempts fail and whatever
\* mails cannot be sent.
C37_CommandAtMostOnce ==
    \A n \in MailIds : add_diary_calls[n] + gen_weekly_calls[n] <= 1

\* the messages whose sender the whitelist turns away
TurnedAway == {n \in MailIds : ALLOWED # {} /\ inbox[n].from \notin ALLOWED}

\* C38: with a whitelist in force, a message of a sender who is not on it
\* never runs add_diary, gen_weekly or _send_mail and is never in the list
\* process_once returns.
C38_StrangersOnlyMarkedSeen ==
    \A n \in TurnedAway :
        /\ add_diary_calls[n] = 0
        /\ gen_weekly_calls[n] = 0
        /\ send_mail_calls[n] = 0
        /\ \A k \in 1..Len(processed_emails) : processed_emails[k] # n
        /\ \A k \in 1..Len(m_ret.items) : m_ret.items[k] # n

\* a call that went through at its first attempt turned away the diary
\* mail of a stranger: it marked the mail seen and returned the empty list
C38_Witness ==
    /\ mpc = "returned"
    /\ ALLOWED = {"boss"}
    /\ ~implicit_seen
    /\ retry = 0
    /\ m_ret = ReturnedList(<<>>)
    /\ \E n \in TurnedAway :
          /\ inbox[n].cmd = "diary"
          /\ n \notin unseen
====
